---- MODULE Spec2Model ----
(***************************************************************************)
(* hazelnut: a caching HTTP reverse proxy.                                 *)
(*                                                                         *)
(* The model follows the request path of the frontend dispatcher           *)
(* (frontend.Server.ServeHTTP / cacheable / defaultMethod), the backend    *)
(* client and router (backend.Client.Fetch, backend.Router), the cache-key *)
(* function (cache.MakeKey) and the two cache stores that satisfy the      *)
(* dispatcher's Cache interface: mapcache.MAPCache, which service.New      *)
(* constructs, and lrucache.LRUCache, which the frontend tests construct.  *)
(*                                                                         *)
(* Durations and instants are counted in whole seconds.  A header value is *)
(* kept in the form the code reads it in: a Cache-Control value is the     *)
(* list of its directives after strings.Split and strings.TrimSpace, a     *)
(* numeric argument is the result of strconv.Atoi on it, an Expires value  *)
(* is the result of the time.Parse attempts.                               *)
(***************************************************************************)
EXTENDS Integers, Sequences, FiniteSets, TLC

(***************************************************************************)
(* Bounds of the model.                                                    *)
(***************************************************************************)
\* number of requests the frontend accepts in one run
MaxReq == 2
\* the configured cache.maxcost (bytes) of the run
MaxCost == 6
\* the configured cache.maxobj of the run
MaxObj == 1
\* number of calls made on a store that is driven on its own
MaxCalls == 3
\* number of directives in a Cache-Control header
MaxDirectives == 2
\* number of AddBackend calls made on a router
MaxAdds == 2
\* number of connections the listener accepts before the process exits
MaxAccepted == 3

\* the instants the clock can show, in seconds since the start
ClockValues == {0, 300}

\* connections served concurrently (one goroutine per request)
Conns == {1, 2}

Hosts == {"a.test", "b.test"}
\* the origin answers /ns with Cache-Control: no-store, always
NoStorePath == "/ns"
Paths == {"/p", NoStorePath}
Methods == {"GET", "HEAD", "POST"}
\* the requests clients send: <<method, host, path, query string, value of the
\* Accept-Encoding header>>
Requests ==
    {<<"GET", "a.test", "/p", "", "">>, <<"GET", "b.test", "/p", "", "">>,
     <<"HEAD", "a.test", "/p", "", "">>, <<"GET", "a.test", NoStorePath, "", "">>,
     <<"POST", "a.test", "/p", "", "">>, <<"POST", "b.test", NoStorePath, "", "">>}
\* requests for one host and path that differ in method, query string and
\* request headers
KeyRequests ==
    {<<"GET", "a.test", "/p", "", "">>, <<"HEAD", "a.test", "/p", "", "">>,
     <<"GET", "a.test", "/p", "x=1", "">>, <<"GET", "a.test", "/p", "", "gzip">>}

\* requests whose host and path concatenate to the same bytes in more than
\* one way: a host with a '/' in it, a path that does not begin with '/'
SepRequests ==
    {<<"GET", "a.test", "/p", "", "">>, <<"GET", "a.test", "", "", "">>,
     <<"GET", "a", "/p", "", "">>, <<"GET", "a.test/p", "", "", "">>,
     <<"GET", "a", ".test/p", "", "">>}

(***************************************************************************)
(* http.Header: header name -> list of values (empty list: absent).        *)
(***************************************************************************)
HeaderNames ==
    {"Cache-Control", "Expires", "Age", "Content-Type", "Via",
     "X-Cache", "X-Cache-TTL", "X-Cache-Latency", "X-Backend-Name",
     "Connection", "Keep-Alive", "Proxy-Authenticate", "Proxy-Authorization",
     "Te", "Trailers", "Transfer-Encoding", "Upgrade"}

EmptyHeader == [n \in HeaderNames |-> <<>>]

\* textproto.CanonicalMIMEHeaderKey on the names the code passes in lower case
CanonicalKey(k) ==
    CASE k = "connection" -> "Connection"
      [] k = "keep-alive" -> "Keep-Alive"
      [] k = "proxy-authenticate" -> "Proxy-Authenticate"
      [] k = "proxy-authorization" -> "Proxy-Authorization"
      [] k = "te" -> "Te"
      [] k = "trailers" -> "Trailers"
      [] k = "transfer-encoding" -> "Transfer-Encoding"
      [] k = "upgrade" -> "Upgrade"
      [] OTHER -> k

HHas(h, k) == h[CanonicalKey(k)] # <<>>
HGet(h, k) == h[CanonicalKey(k)][1]
HAdd(h, k, v) == [h EXCEPT ![CanonicalKey(k)] = Append(@, v)]
HDel(h, k) == [h EXCEPT ![CanonicalKey(k)] = <<>>]
\* for k, v := range src { dst[k] = v }
HCopy(dst, src) == [n \in HeaderNames |-> IF src[n] # <<>> THEN src[n] ELSE dst[n]]

(***************************************************************************)
(* Header values.                                                          *)
(***************************************************************************)
\* a directive without argument, e.g. no-store
Flag(name) == [name |-> name, isInt |-> FALSE, n |-> 0]
\* a directive "<name>N" whose argument strconv.Atoi reads as the integer n
IntArg(name, n) == [name |-> name, isInt |-> TRUE, n |-> n]
\* a directive "<name>xyz" whose argument strconv.Atoi rejects
BadArg(name) == [name |-> name, isInt |-> FALSE, n |-> 0]

WithCC(h, directives) == [h EXCEPT !["Cache-Control"] = <<directives>>]

(***************************************************************************)
(* frontend.calculateTTL: 0 = do not cache, defaultTTL = no header decides *)
(***************************************************************************)
\* 5 * time.Minute, in seconds
defaultTTL == 300

\* the result of a loop over the directives: has it returned, and what
Returned(ttl) == [ret |-> TRUE, ttl |-> ttl]
FellThrough == [ret |-> FALSE, ttl |-> 0]

RECURSIVE frontendDirectives(_, _)
\* for _, directive := range directives { ... }, from the i-th directive on
frontendDirectives(directives, i) ==
    IF i > Len(directives) THEN FellThrough
    ELSE LET directive == directives[i] IN
         IF directive = Flag("no-store") THEN Returned(0)
         ELSE IF directive = Flag("private") THEN Returned(0)
         ELSE IF directive = Flag("no-cache") THEN Returned(0)
         ELSE IF directive.name = "s-maxage=" /\ directive.isInt /\ directive.n > 0
              THEN Returned(directive.n)
         ELSE IF directive.name = "max-age=" /\ directive.isInt /\ directive.n > 0
              THEN Returned(directive.n)
         ELSE frontendDirectives(directives, i + 1)

\* an Expires branch that never reads the Age header
frontendExpiresIgnoringAge(headers, t) ==
    IF HGet(headers, "Expires").t - t > 0 THEN HGet(headers, "Expires").t - t ELSE 0

\* the Expires branch: expires parsed by one of the four formats
frontendExpires(headers, t) ==
    LET ttl == HGet(headers, "Expires").t - t IN
    IF ttl > 0
    THEN IF HHas(headers, "Age") /\ HGet(headers, "Age").isInt /\ HGet(headers, "Age").n > 0
         THEN IF ttl - HGet(headers, "Age").n <= 0 THEN 0 ELSE ttl - HGet(headers, "Age").n
         ELSE ttl
    ELSE 0

\* a calculateTTL for which an Expires value that does not parse has expired
frontendCalculateTTLStrictExpires(headers, t) ==
    LET cc == IF HHas(headers, "Cache-Control")
              THEN frontendDirectives(HGet(headers, "Cache-Control"), 1)
              ELSE FellThrough
    IN  IF cc.ret THEN cc.ttl
        ELSE IF HHas(headers, "Expires")
             THEN IF HGet(headers, "Expires").parsed THEN frontendExpires(headers, t) ELSE 0
             ELSE defaultTTL

frontendCalculateTTL(headers, t) ==
    LET cc == IF HHas(headers, "Cache-Control")
              THEN frontendDirectives(HGet(headers, "Cache-Control"), 1)
              ELSE FellThrough
    IN  IF cc.ret THEN cc.ttl
        ELSE IF HHas(headers, "Expires") /\ HGet(headers, "Expires").parsed
             THEN frontendExpires(headers, t)
             ELSE defaultTTL

(***************************************************************************)
(* lrucache.calculateTTL: negative = do not cache, 0 = no expiration       *)
(***************************************************************************)
RECURSIVE lrucacheDirectives(_, _)
lrucacheDirectives(directives, i) ==
    IF i > Len(directives) THEN FellThrough
    ELSE LET directive == directives[i] IN
         IF directive = Flag("no-store") THEN Returned(-1)
         ELSE IF directive = Flag("private") THEN Returned(-1)
         ELSE IF directive = Flag("no-cache") THEN Returned(-1)
         ELSE IF directive.name = "s-maxage=" /\ directive.isInt /\ directive.n > 0
              THEN Returned(directive.n)
         ELSE IF directive.name = "max-age=" /\ directive.isInt /\ directive.n > 0
              THEN Returned(directive.n)
         ELSE lrucacheDirectives(directives, i + 1)

\* an Expires branch of the store that never reads the Age header
lrucacheExpiresIgnoringAge(headers, t) ==
    IF HGet(headers, "Expires").t - t > 0 THEN HGet(headers, "Expires").t - t ELSE -1

lrucacheExpires(headers, t) ==
    LET ttl == HGet(headers, "Expires").t - t IN
    IF ttl > 0
    THEN IF HHas(headers, "Age") /\ HGet(headers, "Age").isInt /\ HGet(headers, "Age").n > 0
         THEN IF ttl - HGet(headers, "Age").n <= 0 THEN -1 ELSE ttl - HGet(headers, "Age").n
         ELSE ttl
    ELSE -1

lrucacheCalculateTTL(headers, t) ==
    LET cc == IF HHas(headers, "Cache-Control")
              THEN lrucacheDirectives(HGet(headers, "Cache-Control"), 1)
              ELSE FellThrough
    IN  IF cc.ret THEN cc.ttl
        ELSE IF HHas(headers, "Expires") /\ HGet(headers, "Expires").parsed
             THEN lrucacheExpires(headers, t)
             ELSE 0

(***************************************************************************)
(* cache.MakeKey: sha256 over host||path, or over path alone.  The digest  *)
(* is collision resistant; the key is identified with the bytes hashed.    *)
(***************************************************************************)
\* an http.Request as the handler reads it: r.Method, r.Host, r.URL.Path,
\* r.URL.RawQuery, r.Header's Accept-Encoding
Request(id, method, host, path, query, accept) ==
    [id |-> id, method |-> method, host |-> host, path |-> path, query |-> query,
     accept |-> accept]

\* variants of MakeKey that get the flag wrong
MakeKeyPathOnly(r, ignoreHostFlag) == r.path

MakeKeyAlwaysHost(r, ignoreHostFlag) == r.host \o r.path

\* a MakeKey that hashes the request URI, query string included
MakeKeyWithQuery(r, ignoreHostFlag) ==
    IF ~ignoreHostFlag THEN r.host \o r.path \o "?" \o r.query ELSE r.path \o "?" \o r.query

\* a MakeKey that hashes a separator between host and path
MakeKeySeparated(r, ignoreHostFlag) ==
    IF ~ignoreHostFlag THEN r.host \o "|" \o r.path ELSE r.path

MakeKey(r, ignoreHostFlag) ==
    IF ~ignoreHostFlag THEN r.host \o r.path ELSE r.path

Keys == {MakeKey(Request(0, "GET", h, p, "", ""), ig) : h \in Hosts, p \in Paths, ig \in BOOLEAN}

(***************************************************************************)
(* The origin servers (environment) and the backend package.               *)
(***************************************************************************)
\* an http.Response as Client.Fetch hands it on; readErr: reading Body fails
Response(status, header, body, readErr) ==
    [StatusCode |-> status, Header |-> header, Body |-> body, readErr |-> readErr]

TextPlain == HAdd(EmptyHeader, "Content-Type", "text/plain")

\* what the origin can answer for a path
OriginResponses(path) ==
    IF path = NoStorePath
    THEN {Response(200, WithCC(TextPlain, <<Flag("no-store")>>), "hi", FALSE)}
    ELSE {Response(200, HAdd(HAdd(HAdd(WithCC(TextPlain, <<IntArg("max-age=", 300)>>),
                                       "Connection", "keep-alive"),
                                  "Keep-Alive", "timeout=5"),
                             "Via", "1.1 upstream"), "hello", FALSE),
          Response(404, TextPlain, "hi", FALSE),
          Response(200, TextPlain, "hi", TRUE)}

\* the outcome of httpClient.Do: an error, or the origin's response
RoundTrips(path) ==
    {[err |-> TRUE, resp |-> Response(0, EmptyHeader, "", FALSE)]}
    \cup {[err |-> FALSE, resp |-> r] : r \in OriginResponses(path)}

NutsBody == "<html><body><h1>I have a confuse</h1></body></html>"

\* backend.nuts: the synthetic response
nuts ==
    Response(500,
             HAdd(HAdd(EmptyHeader, "Content-Type", "text/plain"), "X-Backend-Name", "nuts"),
             NutsBody, FALSE)

\* backend.Client: the fixed target it dials and its scheme
DefaultClient == [target |-> "origin.default", port |-> 443, scheme |-> "https"]
VhostClient == [target |-> "origin.b", port |-> 8080, scheme |-> "http"]

\* a Fetch that hands on whatever the round trip returned
ClientFetchOkAlways(client, beReq, roundTrip) ==
    [resp |-> roundTrip.resp, ok |-> TRUE]

\* a Fetch that tries again after a failed round trip and gets an answer
ClientFetchRetrying(client, beReq, roundTrip) ==
    IF roundTrip.err
    THEN [resp |-> Response(200, TextPlain, "hi", FALSE), ok |-> TRUE]
    ELSE [resp |-> roundTrip.resp, ok |-> TRUE]

\* backend.Client.Fetch, given the outcome of the round trip
ClientFetch(client, beReq, roundTrip) ==
    IF roundTrip.err
    THEN [resp |-> nuts, ok |-> FALSE]
    ELSE [resp |-> roundTrip.resp, ok |-> TRUE]

\* a client that dials the address of the request's URL
ClientSendToURLHost(client, beReq) ==
    [beReq EXCEPT !.scheme = IF @ = "" THEN client.scheme ELSE @,
                  !.dial = <<beReq.URLHost, client.port>>]

\* a client that puts its own address into the Host header
ClientSendRewritingHost(client, beReq) ==
    [beReq EXCEPT !.scheme = IF @ = "" THEN client.scheme ELSE @,
                  !.Host = client.target,
                  !.dial = <<client.target, client.port>>]

\* the request as the client sends it: scheme filled in, fixed address dialed
ClientSend(client, beReq) ==
    [beReq EXCEPT !.scheme = IF @ = "" THEN client.scheme ELSE @,
                  !.dial = <<client.target, client.port>>]

\* a lookup that never reads the table
GetBackendDefaultOnly(table, host) == DefaultClient

\* backend.Router.GetBackend
GetBackend(table, host) ==
    IF host \in DOMAIN table THEN table[host] ELSE DefaultClient

\* backend.Router.Fetch
RouterFetch(table, beReq, roundTrip) ==
    ClientFetch(GetBackend(table, beReq.Host), beReq, roundTrip)

(***************************************************************************)
(* The cache stores.  A stored item is the ObjCore (Headers, Body) with    *)
(* ristretto's expiration (0: none) and, as history, the request that      *)
(* stored it and the body that request's client was sent.                  *)
(***************************************************************************)
ObjCore(headers, body, by, sent) ==
    [Headers |-> headers, Body |-> body, expiration |-> 0, by |-> by, sent |-> sent]

NoRequest == Request(0, "", "", "", "", "")

\* the body a request wrote to its client, whether the write succeeded, and
\* the instant the request called Set
Sent(ok, body, at) == [ok |-> ok, body |-> body, at |-> at]

\* cache.ObjCore{}
ZeroObj == ObjCore(EmptyHeader, "", NoRequest, Sent(FALSE, "", 0))

Without(c, keys) == [k \in DOMAIN c \ keys |-> c[k]]

RECURSIVE SumBodies(_, _)
SumBodies(c, keys) ==
    IF keys = {} THEN 0
    ELSE LET k == CHOOSE x \in keys : TRUE
         IN  Len(c[k].Body) + SumBodies(c, keys \ {k})

\* the sum of the body lengths of the stored entries
TotalCost(c) == SumBodies(c, DOMAIN c)

\* mapcache.MAPCache.Get
mapcacheGet(c, key) ==
    IF key \in DOMAIN c
    THEN [value |-> c[key], found |-> TRUE]
    ELSE [value |-> ZeroObj, found |-> FALSE]

\* a Set that updates the body of an entry already stored and keeps its headers
mapcacheSetKeepingHeaders(c, key, value) ==
    IF key \in DOMAIN c
    THEN (key :> [value EXCEPT !.Headers = c[key].Headers]) @@ c
    ELSE (key :> value) @@ c

\* mapcache.MAPCache.Set
mapcacheSet(c, key, value) == (key :> value) @@ c

\* mapcache.MAPCache.SetWithTTL
mapcacheSetWithTTL(c, key, value, ttl) == (key :> value) @@ c

\* ristretto.Cache.Get: an item past its expiration is not found
ristrettoGet(c, key, t) ==
    IF key \in DOMAIN c /\ (c[key].expiration = 0 \/ t < c[key].expiration)
    THEN [value |-> c[key], found |-> TRUE]
    ELSE [value |-> ZeroObj, found |-> FALSE]

\* ristretto.Cache.SetWithTTL: the stores it can leave behind.  A negative
\* ttl is a no-op; an item dearer than MaxCost is never admitted; an item
\* that does not fit is rejected, or admitted after evicting others.
ristrettoSetWithTTL(c, key, value, cost, ttl, t) ==
    LET item == [value EXCEPT !.expiration = IF ttl = 0 THEN 0 ELSE t + ttl]
        others == DOMAIN c \ {key}
        fits(victims) == cost + SumBodies(c, others \ victims) <= MaxCost
    IN  IF ttl < 0 \/ cost > MaxCost THEN {c}
        ELSE IF fits({}) THEN {(key :> item) @@ c}
        ELSE {c} \cup {(key :> item) @@ Without(c, victims) :
                          victims \in {v \in SUBSET others : fits(v)}}

\* lrucache.LRUCache.Get
lrucacheGet(c, key, t) == ristrettoGet(c, key, t)

\* lrucache.LRUCache.Set
lrucacheSet(c, key, value, t) ==
    LET ttl == lrucacheCalculateTTL(value.Headers, t) IN
    IF ttl = 0
    THEN ristrettoSetWithTTL(c, key, value, Len(value.Body), 0, t)
    ELSE ristrettoSetWithTTL(c, key, value, Len(value.Body), ttl, t)

\* lrucache.LRUCache.SetWithTTL
lrucacheSetWithTTL(c, key, value, ttl, t) ==
    ristrettoSetWithTTL(c, key, value, Len(value.Body), ttl, t)

\* a store in which no lookup finds anything
CacheGetNeverFinds(storeKind, c, key, t) == [value |-> ZeroObj, found |-> FALSE]

\* the dispatcher's Cache interface, over the store the run was built with
CacheGet(storeKind, c, key, t) ==
    IF storeKind = "map" THEN mapcacheGet(c, key) ELSE lrucacheGet(c, key, t)

CacheSet(storeKind, c, key, value, t) ==
    IF storeKind = "map" THEN {mapcacheSet(c, key, value)} ELSE lrucacheSet(c, key, value, t)

(***************************************************************************)
(* The state.                                                              *)
(***************************************************************************)
VARIABLES
    ignoreHost,   \* frontend.Server.ignoreHost (cache.ignorehost of the config)
    kind,         \* the Cache implementation the frontend was built with
    backends,     \* backend.Router.backends: host -> client
    cache,        \* the store's contents: key -> stored item
    now,          \* the wall clock, in seconds
    conn,         \* per connection: the request being handled, if any
    last,         \* the exchange completed most recently, as the client saw it
    hits,         \* metrics.CacheHits
    misses,       \* metrics.CacheMisses
    errors,       \* metrics.Errors
    nreq,         \* requests accepted so far
    fetched,      \* calls of backend.Fetch so far
    lookups,      \* GET and HEAD requests that went through cache.Get so far
    respHeaders,  \* calculateTTL: the response headers it is called with
    decision,     \* calculateTTL: what it returned
    getResult,    \* the store: what the last Get returned, for which key, when
    hist,         \* the store: per key, the last Set/SetWithTTL call made for it
    procs,        \* the router: per goroutine, the call it is in and where
    torn,         \* the router: the map write is under way
    log,          \* the router: the registrations made, in order
    life,         \* the process: context, listener, Run, Shutdown, connections
    callers,      \* the map store: per goroutine, the call it is in and where
    mapState,     \* the map store: guarded or bare, raced, stopped by the runtime
    writer        \* the handler of frontend.go: its last call and its ResponseWriter

\* the dispatcher's run
mainVars == <<ignoreHost, kind, backends, cache, now, conn, last, hits, misses, errors,
              nreq, fetched, lookups>>
\* the arguments and results of calculateTTL called on its own
ttlVars == <<respHeaders, decision>>
\* the results and the history of the store's methods called on their own
storeVars == <<getResult, hist>>
\* the goroutines calling the router's methods
routerVars == <<procs, torn, log>>

\* the process from start to exit
lifeVars == <<life>>

\* the goroutines calling the map store's methods
concVars == <<callers, mapState>>
\* the handler of src/frontend/frontend.go
oldVars == <<writer>>

vars == <<mainVars, ttlVars, storeVars, routerVars, lifeVars, concVars, oldVars>>

Idle == [pc |-> "idle", req |-> NoRequest, route |-> "", key |-> ""]

NoResponse == Response(0, EmptyHeader, "", FALSE)

NoRoundTrip == [err |-> FALSE, resp |-> NoResponse]

NoBeReq == [Method |-> "", Host |-> "", URLHost |-> "", Path |-> "", RawQuery |-> "",
            AcceptEncoding |-> "", RequestURI |-> "", scheme |-> "", dial |-> <<>>]

\* a completed exchange: the request; the route taken (hit, miss, pass); the
\* calls of backend.Fetch made for it; the request sent to the backend; the
\* outcome of the round trip; what Fetch returned (beResp, ok); whether
\* cache.Set was called; the item served on a hit; the status given to
\* WriteHeader, the reply header, the body given to Write or io.Copy, and
\* whether that write succeeded
Exchange(req, route, n, beReq, rt, fetch, stored, served, status, header, written, wOk) ==
    [req |-> req, route |-> route, fetches |-> n, beReq |-> beReq,
     roundTrip |-> rt, ok |-> fetch.ok, beResp |-> fetch.resp, stored |-> stored,
     served |-> served, status |-> status, Header |-> header, written |-> written,
     writeOk |-> wOk]

NoFetch == [resp |-> NoResponse, ok |-> FALSE]

NoExchange ==
    Exchange(NoRequest, "", 0, NoBeReq, NoRoundTrip, NoFetch, FALSE, ZeroObj, 0,
             EmptyHeader, "", TRUE)

\* no call of calculateTTL yet
NoDecision == [done |-> FALSE, frontend |-> 0, lrucache |-> 0]

\* no call of Get yet
NoGot == [called |-> FALSE, key |-> "", at |-> 0, found |-> FALSE, value |-> ZeroObj]

\* no call of Set or SetWithTTL yet
NoCalls == [n |-> 0, set |-> <<>>, kept |-> <<>>]

\* goroutines that call the router
Procs == {1, 2, 3}

\* a goroutine outside any call
IdleProc ==
    [pc |-> "idle", host |-> "", client |-> DefaultClient, beReq |-> NoBeReq,
     result |-> DefaultClient, sawTorn |-> FALSE, sent |-> NoBeReq]

\* the process after Run has started listening: the context is live, the
\* goroutine of Run waits on ctx.Done(), ListenAndServe serves, no connection
\* has been accepted
Serving ==
    [ctx |-> "live", listener |-> "open", inShutdown |-> FALSE, shutdown |-> "waiting",
     shutdownErr |-> FALSE, run |-> "serving", runErr |-> FALSE, process |-> "running",
     status |-> 0, handlers |-> [c \in Conns |-> "none"], accepted |-> 0]

\* no map store is called on its own
NoMap == [synced |-> TRUE, raced |-> FALSE, fatal |-> FALSE]

\* the handler of frontend.go has not been called
NoWriter ==
    [n |-> 0, req |-> NoRequest, route |-> "", beResp |-> NoResponse, stored |-> FALSE,
     rw |-> [header |-> EmptyHeader, wroteHeader |-> FALSE, status |-> 0,
             sent |-> EmptyHeader, body |-> ""]]

\* nothing but the dispatcher runs
AuxIdle ==
    /\ respHeaders = EmptyHeader
    /\ decision = NoDecision
    /\ getResult = NoGot
    /\ hist = NoCalls
    /\ procs = [p \in Procs |-> IdleProc]
    /\ torn = FALSE
    /\ log = <<>>
    /\ life = Serving
    /\ callers = <<>>
    /\ mapState = NoMap
    /\ writer = NoWriter

Init ==
    /\ AuxIdle
    /\ ignoreHost \in BOOLEAN
    /\ kind \in {"map", "lru"}
    /\ backends = ("b.test" :> VhostClient)
    /\ cache = <<>>
    /\ now = 0
    /\ conn = [c \in Conns |-> Idle]
    /\ last = NoExchange
    /\ hits = 0
    /\ misses = 0
    /\ errors = 0
    /\ nreq = 0
    /\ fetched = 0 /\ lookups = 0

(***************************************************************************)
(* The dispatcher: frontend.Server.                                        *)
(***************************************************************************)
\* time.Duration.String for whole seconds
DurationString(d) ==
    IF d < 60 THEN ToString(d) \o "s"
    ELSE IF d < 3600 THEN ToString(d \div 60) \o "m" \o ToString(d % 60) \o "s"
    ELSE ToString(d \div 3600) \o "h" \o ToString((d % 3600) \div 60) \o "m"
         \o ToString(d % 60) \o "s"

\* frontend.versionString
versionString == "hazelnut version"

\* frontend.headerDenyList
headerDenyList ==
    <<"connection", "keep-alive", "proxy-authenticate", "proxy-authorization",
      "te", "trailers", "transfer-encoding", "upgrade">>

RECURSIVE DelAll(_, _, _)
\* for _, h := range headerDenyList() { header.Del(h) }
DelAll(header, names, i) ==
    IF i > Len(names) THEN header
    ELSE DelAll(HDel(header, names[i]), names, i + 1)

\* a clone that is sent with the method the client used
BackendRequestKeepingMethod(req, headToGet) ==
    [Method |-> req.method,
     Host |-> req.host, URLHost |-> req.host, Path |-> req.path,
     RawQuery |-> req.query, AcceptEncoding |-> req.accept,
     RequestURI |-> "", scheme |-> "", dial |-> <<>>]

\* req.Clone with RequestURI cleared, HEAD turned into GET (cacheable path
\* only) and the URL host taken from the Host header
BackendRequest(req, headToGet) ==
    [Method |-> IF headToGet /\ req.method = "HEAD" THEN "GET" ELSE req.method,
     Host |-> req.host, URLHost |-> req.host, Path |-> req.path,
     RawQuery |-> req.query, AcceptEncoding |-> req.accept,
     RequestURI |-> "", scheme |-> "", dial |-> <<>>]

\* cacheable, hit branch: the reply header built from the stored item
HitHeader(obj) ==
    HAdd(HAdd(HCopy(EmptyHeader, obj.Headers), "X-Cache", "hit"),
         "X-Cache-Latency", "latency")

\* cacheable, hit branch: WriteHeader(http.StatusOK), Write(obj.Body)
HitExchangeNoBody(req, obj) ==
    Exchange(req, "hit", 0, NoBeReq, NoRoundTrip, NoFetch, FALSE, obj, 200,
             HitHeader(obj), "", TRUE)

\* a hit answered as a conditional request would be: 304 and no body
HitExchangeNotModified(req, obj) ==
    Exchange(req, "hit", 0, NoBeReq, NoRoundTrip, NoFetch, FALSE, obj, 304,
             HitHeader(obj), "", TRUE)

HitExchange(req, obj) ==
    Exchange(req, "hit", 0, NoBeReq, NoRoundTrip, NoFetch, FALSE, obj, 200,
             HitHeader(obj), obj.Body, TRUE)

\* a Via value is added and every header of the backend is kept
CleanHeaderKeepingHopByHop(header) == HAdd(header, "Via", versionString)

\* cacheable, miss branch: headers cleaned before caching, Via added
CleanHeader(header) == HAdd(DelAll(header, headerDenyList, 1), "Via", versionString)

ShouldStoreIgnoringTTL(cacheable, ttl) == cacheable

ShouldStoreIgnoringOk(cacheable, ttl) == ttl > 0

\* if cacheable { ... if ttl > 0 { ... s.cache.Set(key, objCore) } }
ShouldStore(cacheable, ttl) == cacheable /\ ttl > 0

\* the reply header of a miss
MissHeader(clean, store, ttl) ==
    LET h0 == IF store THEN HAdd(EmptyHeader, "X-Cache-TTL", DurationString(ttl))
              ELSE EmptyHeader
    IN  HAdd(HAdd(HCopy(h0, clean), "X-Cache", "miss"), "X-Cache-Latency", "latency")

ReplyStatusOK(beResp) == 200

\* resp.WriteHeader(beResp.StatusCode)
ReplyStatus(beResp) == beResp.StatusCode

PassHeaderWithXCache(beResp) ==
    HAdd(HCopy(EmptyHeader, beResp.Header), "X-Cache", "miss")

\* defaultMethod: for k, v := range beResp.Header { resp.Header()[k] = v }
PassHeader(beResp) == HCopy(EmptyHeader, beResp.Header)

\* a handler that goes on with what it has read
ReadFailedNever(beResp) == FALSE

\* body, err := io.ReadAll(beResp.Body); if err != nil
ReadFailed(beResp) == beResp.readErr

\* http.Error(resp, err.Error(), http.StatusInternalServerError)
ErrorHeader == HAdd(EmptyHeader, "Content-Type", "text/plain; charset=utf-8")
ReadErrorBody == "read error"

\* a write to the client can fail only when there is something to send (the
\* server discards the body of a reply to HEAD)
WriteCanFail(method, body) == method # "HEAD" /\ body # ""

(***************************************************************************)
(* Actions.                                                                *)
(***************************************************************************)
\* a new request takes the lowest free connection
Free(c) == conn[c].pc = "idle" /\ \A d \in Conns : d < c => conn[d].pc # "idle"

\* ServeHTTP -> cacheable, up to the reply of a hit or the decision to fetch
Lookup(c, method, host, path, query, accept) ==
    /\ method \in {"GET", "HEAD"}
    /\ nreq < MaxReq
    /\ Free(c)
    /\ LET req == Request(nreq + 1, method, host, path, query, accept)
           key == MakeKey(req, ignoreHost)
           got == CacheGet(kind, cache, key, now)
       IN  IF got.found
           THEN /\ hits' = hits + 1
                /\ last' = HitExchange(req, got.value)
                /\ UNCHANGED <<conn, misses>>
           ELSE /\ misses' = misses + 1
                /\ conn' = [conn EXCEPT ![c] =
                               [pc |-> "fetch", req |-> req, route |-> "miss", key |-> key]]
                /\ UNCHANGED <<hits, last>>
    /\ nreq' = nreq + 1
    /\ lookups' = lookups + 1
    /\ UNCHANGED <<ignoreHost, kind, backends, cache, now, errors, fetched>>
    /\ UNCHANGED <<ttlVars, storeVars, routerVars, lifeVars, concVars, oldVars>>

\* cacheable after a miss: fetch, read the body, store, reply
MissRespond(c, roundTrip, writeOk) ==
    /\ conn[c].pc = "fetch"
    /\ roundTrip \in RoundTrips(conn[c].req.path)
    /\ LET req == conn[c].req
           key == conn[c].key
           beReq == BackendRequest(req, TRUE)
           sentReq == ClientSend(GetBackend(backends, beReq.Host), beReq)
           got == RouterFetch(backends, beReq, roundTrip)
           beResp == got.resp
           cacheable == got.ok
       IN  IF ReadFailed(beResp)
           THEN /\ writeOk
                /\ errors' = errors + 1
                /\ cache' = cache
                /\ last' = Exchange(req, "miss", 1, sentReq, roundTrip, got, FALSE,
                                    ZeroObj, 500, ErrorHeader, ReadErrorBody, TRUE)
           ELSE LET clean == CleanHeader(beResp.Header)
                    ttl == frontendCalculateTTL(clean, now)
                    store == ShouldStore(cacheable, ttl)
                    obj == ObjCore(clean, beResp.Body, req, Sent(writeOk, beResp.Body, now))
                IN  /\ writeOk \/ WriteCanFail(req.method, beResp.Body)
                    /\ cache' \in (IF store THEN CacheSet(kind, cache, key, obj, now)
                                   ELSE {cache})
                    /\ errors' = IF writeOk THEN errors ELSE errors + 1
                    /\ last' = Exchange(req, "miss", 1, sentReq, roundTrip, got, store,
                                        ZeroObj, ReplyStatus(beResp),
                                        MissHeader(clean, store, ttl), beResp.Body, writeOk)
    /\ fetched' = fetched + 1
    /\ conn' = [conn EXCEPT ![c] = Idle]
    /\ UNCHANGED <<ignoreHost, kind, backends, now, hits, misses, nreq, lookups>>
    /\ UNCHANGED <<ttlVars, storeVars, routerVars, lifeVars, concVars, oldVars>>

\* ServeHTTP -> defaultMethod: any other method is passed through
DefaultMethod(method, host, path, query, accept, roundTrip, copyOk) ==
    /\ method \notin {"GET", "HEAD"}
    /\ nreq < MaxReq
    /\ \E c \in Conns : Free(c)
    /\ roundTrip \in RoundTrips(path)
    /\ LET req == Request(nreq + 1, method, host, path, query, accept)
           beReq == BackendRequest(req, FALSE)
           sentReq == ClientSend(GetBackend(backends, beReq.Host), beReq)
           got == RouterFetch(backends, beReq, roundTrip)
           beResp == got.resp
           copied == req.method # "HEAD"
           failed == copied /\ (beResp.readErr \/ ~copyOk)
       IN  /\ copyOk \/ (~beResp.readErr /\ WriteCanFail(req.method, beResp.Body))
           /\ errors' = IF failed THEN errors + 1 ELSE errors
           /\ last' = Exchange(req, "pass", 1, sentReq, roundTrip, got, FALSE, ZeroObj,
                               ReplyStatus(beResp), PassHeader(beResp),
                               IF copied /\ ~beResp.readErr THEN beResp.Body ELSE "",
                               ~failed)
    /\ nreq' = nreq + 1
    /\ fetched' = fetched + 1
    /\ UNCHANGED <<ignoreHost, kind, backends, cache, now, conn, hits, misses, lookups>>
    /\ UNCHANGED <<ttlVars, storeVars, routerVars, lifeVars, concVars, oldVars>>

\* time passes
Tick ==
    /\ \E t \in ClockValues : t > now /\ now' = t
    /\ UNCHANGED <<ignoreHost, kind, backends, cache, conn, last, hits, misses, errors,
                   nreq, fetched, lookups>>
    /\ UNCHANGED <<ttlVars, storeVars, routerVars, lifeVars, concVars, oldVars>>

Next ==
    \/ \E c \in Conns, r \in Requests :
          Lookup(c, r[1], r[2], r[3], r[4], r[5])
    \/ \E c \in Conns, roundTrip \in RoundTrips("/p") \cup RoundTrips(NoStorePath),
          writeOk \in BOOLEAN :
          MissRespond(c, roundTrip, writeOk)
    \/ \E r \in Requests,
          roundTrip \in RoundTrips("/p") \cup RoundTrips(NoStorePath), copyOk \in BOOLEAN :
          DefaultMethod(r[1], r[2], r[3], r[4], r[5], roundTrip, copyOk)
    \/ Tick

Spec == Init /\ [][Next]_vars

\* the dispatcher serving the requests of KeyRequests
KeyNext ==
    \/ \E c \in Conns, r \in KeyRequests :
          Lookup(c, r[1], r[2], r[3], r[4], r[5])
    \/ \E c \in Conns, roundTrip \in RoundTrips("/p"), writeOk \in BOOLEAN :
          MissRespond(c, roundTrip, writeOk)
    \/ Tick

KeySpec == Init /\ [][KeyNext]_vars

\* the dispatcher serving the requests of SepRequests
SepNext ==
    \/ \E c \in Conns, r \in SepRequests :
          Lookup(c, r[1], r[2], r[3], r[4], r[5])
    \/ \E c \in Conns, roundTrip \in RoundTrips("/p") :
          MissRespond(c, roundTrip, TRUE)

SepSpec == Init /\ [][SepNext]_vars

(***************************************************************************)
(* calculateTTL on its own: the response headers are drawn from the        *)
(* Cache-Control lists of up to MaxDirectives directives, the Expires and  *)
(* the Age values below, and both calculateTTL functions are applied.      *)
(***************************************************************************)
\* the directives after strings.Split and strings.TrimSpace
DirectiveValues ==
    {Flag("no-store"), Flag("private"), Flag("no-cache"), Flag("must-revalidate"),
     IntArg("s-maxage=", 60), IntArg("max-age=", 3600), IntArg("max-age=", 0),
     BadArg("s-maxage="), BadArg("max-age="), IntArg("s-maxage=", -5)}

RECURSIVE DirectiveLists(_)
\* the lists of exactly n directives
DirectiveLists(n) ==
    IF n = 0 THEN {<<>>}
    ELSE {Append(l, d) : l \in DirectiveLists(n - 1), d \in DirectiveValues}

\* an Expires value: whether one of the four time formats parses it, and the
\* instant it names
ExpiresAt(t) == [parsed |-> TRUE, t |-> t]
BadExpires == [parsed |-> FALSE, t |-> 0]
ExpiresValues == {ExpiresAt(0), ExpiresAt(200), ExpiresAt(400), BadExpires}

\* an Age value as strconv.Atoi reads it
AgeValues == {IntArg("", 0), IntArg("", 100), IntArg("", 500), BadArg("")}

\* the headers with one value set, or left as they are
WithValue(h, name, values) == {h} \cup {[h EXCEPT ![name] = <<v>>] : v \in values}

TTLHeaders ==
    UNION {UNION {WithValue(h2, "Age", AgeValues) : h2 \in WithValue(h1, "Expires", ExpiresValues)} :
             h1 \in {TextPlain} \cup {WithCC(TextPlain, l) : l \in UNION {DirectiveLists(n) : n \in 1..MaxDirectives}}}

TTLInit ==
    /\ respHeaders \in TTLHeaders
    /\ now \in ClockValues
    /\ decision = NoDecision
    /\ ignoreHost = FALSE
    /\ kind = "map"
    /\ backends = ("b.test" :> VhostClient)
    /\ cache = <<>>
    /\ conn = [c \in Conns |-> Idle]
    /\ last = NoExchange
    /\ hits = 0 /\ misses = 0 /\ errors = 0 /\ nreq = 0 /\ fetched = 0 /\ lookups = 0
    /\ getResult = NoGot
    /\ hist = NoCalls
    /\ procs = [p \in Procs |-> IdleProc]
    /\ torn = FALSE
    /\ log = <<>>
    /\ life = Serving
    /\ callers = <<>>
    /\ mapState = NoMap
    /\ writer = NoWriter

\* ttl := calculateTTL(headers), in the dispatcher and in the store
Decide ==
    /\ ~decision.done
    /\ decision' = [done |-> TRUE,
                    frontend |-> frontendCalculateTTL(respHeaders, now),
                    lrucache |-> lrucacheCalculateTTL(respHeaders, now)]
    /\ UNCHANGED <<respHeaders, mainVars, storeVars, routerVars, lifeVars, concVars, oldVars>>

TTLNext == Decide

TTLSpec == TTLInit /\ [][TTLNext]_vars

(***************************************************************************)
(* The store on its own: Set, SetWithTTL and Get called directly, as its   *)
(* unit tests and any other user of the package call them.                 *)
(***************************************************************************)
StoreKeys == {"k1", "k2"}

\* the objects handed to the store: bodies of 2, 5 and 9 bytes, headers
\* without any lifetime, with max-age=300, with no-store, and with an Expires
\* time that has been reached
StoreBodies == {"hi", "hello", "oversized"}
StoreHeaders ==
    {TextPlain, WithCC(TextPlain, <<IntArg("max-age=", 300)>>),
     WithCC(TextPlain, <<Flag("no-store")>>),
     [TextPlain EXCEPT !["Expires"] = <<ExpiresAt(0)>>]}
StoreObj(h, b) == ObjCore(h, b, NoRequest, Sent(FALSE, "", 0))
StoreValues ==
    {StoreObj(TextPlain, b) : b \in StoreBodies}
    \cup {StoreObj(h, "hello") : h \in StoreHeaders}

\* the ttl arguments of SetWithTTL, in seconds
StoreTTLs == {300}

\* the call recorded for a key
SetCall(op, value, ttl, t) == [op |-> op, value |-> value, ttl |-> ttl, at |-> t]

\* the store holds, under key, the headers and the body of value
Holds(c, key, value) ==
    key \in DOMAIN c /\ c[key].Headers = value.Headers /\ c[key].Body = value.Body

\* the calls made so far: per key the last call, and the last call that left
\* its value in the store
Recorded(key, call, took) ==
    [n |-> hist.n + 1, set |-> (key :> call) @@ hist.set,
     kept |-> IF took THEN (key :> call) @@ hist.kept ELSE hist.kept]

StoreInit ==
    /\ kind \in {"map", "lru"}
    /\ cache = <<>>
    /\ now = 0
    /\ getResult = NoGot
    /\ hist = NoCalls
    /\ ignoreHost = FALSE
    /\ backends = ("b.test" :> VhostClient)
    /\ conn = [c \in Conns |-> Idle]
    /\ last = NoExchange
    /\ hits = 0 /\ misses = 0 /\ errors = 0 /\ nreq = 0 /\ fetched = 0 /\ lookups = 0
    /\ respHeaders = EmptyHeader
    /\ decision = NoDecision
    /\ procs = [p \in Procs |-> IdleProc]
    /\ torn = FALSE
    /\ log = <<>>
    /\ life = Serving
    /\ callers = <<>>
    /\ mapState = NoMap
    /\ writer = NoWriter

StoreFrame ==
    UNCHANGED <<ignoreHost, kind, backends, conn, last, hits, misses, errors, nreq,
                fetched, lookups, ttlVars, routerVars, lifeVars, concVars, oldVars>>

\* Set(key, value)
StoreSet(key, value) ==
    /\ hist.n < MaxCalls
    /\ cache' \in CacheSet(kind, cache, key, value, now)
    /\ hist' = Recorded(key, SetCall("Set", value, 0, now), Holds(cache', key, value))
    /\ UNCHANGED <<now, getResult>>
    /\ StoreFrame

\* SetWithTTL(key, value, ttl)
StoreSetWithTTL(key, value, ttl) ==
    /\ hist.n < MaxCalls
    /\ cache' \in (IF kind = "map" THEN {mapcacheSetWithTTL(cache, key, value, ttl)}
                   ELSE lrucacheSetWithTTL(cache, key, value, ttl, now))
    /\ hist' = Recorded(key, SetCall("SetWithTTL", value, ttl, now),
                         Holds(cache', key, value))
    /\ UNCHANGED <<now, getResult>>
    /\ StoreFrame

\* Get(key)
StoreGet(key) ==
    /\ LET r == CacheGet(kind, cache, key, now)
       IN  getResult' = [called |-> TRUE, key |-> key, at |-> now,
                         found |-> r.found, value |-> r.value]
    /\ UNCHANGED <<cache, now, hist>>
    /\ StoreFrame

StoreTick ==
    /\ \E t \in ClockValues : t > now /\ now' = t
    /\ UNCHANGED <<cache, getResult, hist>>
    /\ StoreFrame

StoreNext ==
    \/ \E key \in StoreKeys, value \in StoreValues : StoreSet(key, value)
    \/ \E key \in StoreKeys, value \in StoreValues, ttl \in StoreTTLs :
          StoreSetWithTTL(key, value, ttl)
    \/ \E key \in StoreKeys : StoreGet(key)
    \/ StoreTick

StoreSpec == StoreInit /\ [][StoreNext]_vars

(***************************************************************************)
(* The router on its own: goroutines call AddBackend and Fetch on one      *)
(* Router concurrently.  r.mu is a sync.RWMutex: Lock waits until nobody   *)
(* holds the lock, RLock waits while a writer holds it or waits for it.    *)
(* The write of the map entry is not atomic: while it is under way the map *)
(* is torn, and a read of a torn map can return anything.                  *)
(***************************************************************************)
\* a third client, and no client at all
OtherClient == [target |-> "origin.c", port |-> 9000, scheme |-> "http"]
NilClient == [target |-> "", port |-> 0, scheme |-> ""]

\* AddBackend(host, client) arguments
Registrations ==
    {<<"a.test", OtherClient>>, <<"b.test", VhostClient>>, <<"b.test", OtherClient>>}

\* a request handed to Fetch
FetchRequest(host, urlHost, scheme) ==
    [Method |-> "GET", Host |-> host, URLHost |-> urlHost, Path |-> "/p",
     RawQuery |-> "", AcceptEncoding |-> "", RequestURI |-> "", scheme |-> scheme,
     dial |-> <<>>]

\* the requests handed to Fetch: as the dispatcher builds them, with a port in
\* the Host header, and with an absolute URL of another host and scheme
FetchRequests ==
    {FetchRequest("a.test", "a.test", ""), FetchRequest("b.test", "b.test", ""),
     FetchRequest("b.test:8080", "b.test:8080", ""),
     FetchRequest("a.test", "elsewhere.test", "http")}

\* the goroutines that hold r.mu for writing, for reading, and that wait in Lock
Writers == {p \in Procs : procs[p].pc \in {"add.write", "add.store", "add.unlock"}}
Readers == {p \in Procs : procs[p].pc \in {"get.read", "get.runlock"}}
Pending == {p \in Procs : procs[p].pc = "add.lock"}

\* r.mu.Lock() can return
CanLock == Writers = {} /\ Readers = {}

\* an RLock that does not wait for writers
CanRLockAlways == TRUE

\* r.mu.RLock() can return
CanRLock == Writers = {} /\ Pending = {}

RouterInit ==
    /\ backends = <<>>
    /\ procs = [p \in Procs |-> IdleProc]
    /\ torn = FALSE
    /\ log = <<>>
    /\ ignoreHost = FALSE
    /\ kind = "map"
    /\ cache = <<>>
    /\ now = 0
    /\ conn = [c \in Conns |-> Idle]
    /\ last = NoExchange
    /\ hits = 0 /\ misses = 0 /\ errors = 0 /\ nreq = 0 /\ fetched = 0 /\ lookups = 0
    /\ respHeaders = EmptyHeader
    /\ decision = NoDecision
    /\ getResult = NoGot
    /\ hist = NoCalls
    /\ life = Serving
    /\ callers = <<>>
    /\ mapState = NoMap
    /\ writer = NoWriter

RouterFrame ==
    UNCHANGED <<ignoreHost, kind, cache, now, conn, last, hits, misses, errors, nreq,
                fetched, lookups, ttlVars, storeVars, lifeVars, concVars, oldVars>>

\* the AddBackend calls made or under way
Adds == Len(log) + Cardinality(Pending \cup Writers)

\* AddBackend(host, client) is called: r.mu.Lock() entered
StartAdd(p, host, client) ==
    /\ procs[p].pc = "idle"
    /\ Adds < MaxAdds
    /\ procs' = [procs EXCEPT ![p] = [IdleProc EXCEPT !.pc = "add.lock", !.host = host,
                                                     !.client = client]]
    /\ UNCHANGED <<backends, torn, log>>
    /\ RouterFrame

\* r.mu.Lock() returns
AddLock(p) ==
    /\ procs[p].pc = "add.lock"
    /\ CanLock
    /\ procs' = [procs EXCEPT ![p].pc = "add.write"]
    /\ UNCHANGED <<backends, torn, log>>
    /\ RouterFrame

\* r.backends[host] = backend begins
AddBegin(p) ==
    /\ procs[p].pc = "add.write"
    /\ torn' = TRUE
    /\ procs' = [procs EXCEPT ![p].pc = "add.store"]
    /\ UNCHANGED <<backends, log>>
    /\ RouterFrame

\* r.backends[host] = backend is done
AddStore(p) ==
    /\ procs[p].pc = "add.store"
    /\ backends' = (procs[p].host :> procs[p].client) @@ backends
    /\ torn' = FALSE
    /\ log' = Append(log, <<procs[p].host, procs[p].client>>)
    /\ procs' = [procs EXCEPT ![p].pc = "add.unlock"]
    /\ RouterFrame

\* the deferred r.mu.Unlock(); AddBackend returns
AddUnlock(p) ==
    /\ procs[p].pc = "add.unlock"
    /\ procs' = [procs EXCEPT ![p] = IdleProc]
    /\ UNCHANGED <<backends, torn, log>>
    /\ RouterFrame

\* Fetch(beReq) is called: GetBackend(beReq.Host), r.mu.RLock() entered
StartFetch(p, beReq) ==
    /\ procs[p].pc = "idle"
    /\ procs' = [procs EXCEPT ![p] = [IdleProc EXCEPT !.pc = "get.rlock", !.beReq = beReq]]
    /\ UNCHANGED <<backends, torn, log>>
    /\ RouterFrame

\* r.mu.RLock() returns
GetRLock(p) ==
    /\ procs[p].pc = "get.rlock"
    /\ CanRLock
    /\ procs' = [procs EXCEPT ![p].pc = "get.read"]
    /\ UNCHANGED <<backends, torn, log>>
    /\ RouterFrame

\* backend, exists := r.backends[host]
GetRead(p) ==
    /\ procs[p].pc = "get.read"
    /\ \E client \in (IF torn THEN {NilClient, DefaultClient, VhostClient, OtherClient}
                      ELSE {GetBackend(backends, procs[p].beReq.Host)}) :
          procs' = [procs EXCEPT ![p].pc = "get.runlock", ![p].result = client,
                                 ![p].sawTorn = torn]
    /\ UNCHANGED <<backends, torn, log>>
    /\ RouterFrame

\* the deferred r.mu.RUnlock(); GetBackend returns to Fetch
GetRUnlock(p) ==
    /\ procs[p].pc = "get.runlock"
    /\ procs' = [procs EXCEPT ![p].pc = "fetch"]
    /\ UNCHANGED <<backends, torn, log>>
    /\ RouterFrame

\* backend.Fetch(beReq): the client sends the request
FetchSend(p) ==
    /\ procs[p].pc = "fetch"
    /\ procs' = [procs EXCEPT ![p].pc = "roundtrip",
                              ![p].sent = ClientSend(procs[p].result, procs[p].beReq)]
    /\ UNCHANGED <<backends, torn, log>>
    /\ RouterFrame

\* Fetch returns
FetchReturn(p) ==
    /\ procs[p].pc = "roundtrip"
    /\ procs' = [procs EXCEPT ![p] = IdleProc]
    /\ UNCHANGED <<backends, torn, log>>
    /\ RouterFrame

RouterNext ==
    \/ \E p \in Procs, r \in Registrations : StartAdd(p, r[1], r[2])
    \/ \E p \in Procs : AddLock(p)
    \/ \E p \in Procs : AddBegin(p)
    \/ \E p \in Procs : AddStore(p)
    \/ \E p \in Procs : AddUnlock(p)
    \/ \E p \in Procs, beReq \in FetchRequests : StartFetch(p, beReq)
    \/ \E p \in Procs : GetRLock(p)
    \/ \E p \in Procs : GetRead(p)
    \/ \E p \in Procs : GetRUnlock(p)
    \/ \E p \in Procs : FetchSend(p)
    \/ \E p \in Procs : FetchReturn(p)

RouterSpec == RouterInit /\ [][RouterNext]_vars

(***************************************************************************)
(* The process from signal to exit: main, service.Server.Run and           *)
(* frontend.Server.Run.  Run starts a goroutine that waits for ctx.Done()  *)
(* and then calls srv.Shutdown(ctx), and itself blocks in ListenAndServe.  *)
(* http.Server, as documented: Shutdown closes the listeners, after which  *)
(* ListenAndServe returns ErrServerClosed at once; Shutdown then waits for *)
(* the connections to become idle, and gives up with ctx.Err() as soon as  *)
(* its context is done.  When main returns the process exits and every     *)
(* goroutine still running is killed.                                      *)
(***************************************************************************)
LifeInit ==
    /\ life = Serving
    /\ callers = <<>>
    /\ mapState = NoMap
    /\ writer = NoWriter
    /\ ignoreHost = FALSE
    /\ kind = "map"
    /\ backends = ("b.test" :> VhostClient)
    /\ cache = <<>>
    /\ now = 0
    /\ conn = [c \in Conns |-> Idle]
    /\ last = NoExchange
    /\ hits = 0 /\ misses = 0 /\ errors = 0 /\ nreq = 0 /\ fetched = 0 /\ lookups = 0
    /\ respHeaders = EmptyHeader
    /\ decision = NoDecision
    /\ getResult = NoGot
    /\ hist = NoCalls
    /\ procs = [p \in Procs |-> IdleProc]
    /\ torn = FALSE
    /\ log = <<>>

LifeFrame == UNCHANGED <<mainVars, ttlVars, storeVars, routerVars, concVars, oldVars>>

\* the connections whose request is in ServeHTTP
Handling == {c \in Conns : life.handlers[c] = "handling"}

\* the listener accepts a connection and its request enters ServeHTTP
Accept(c) ==
    /\ life.process = "running"
    /\ life.listener = "open"
    /\ life.handlers[c] \in {"none", "answered"}
    /\ life.accepted < MaxAccepted
    /\ life' = [life EXCEPT !.handlers[c] = "handling", !.accepted = @ + 1]
    /\ LifeFrame

\* ServeHTTP returns: the request is answered
Answer(c) ==
    /\ life.process = "running"
    /\ life.handlers[c] = "handling"
    /\ life' = [life EXCEPT !.handlers[c] = "answered"]
    /\ LifeFrame

\* SIGINT or SIGTERM: signal.NotifyContext cancels ctx
Signal ==
    /\ life.process = "running"
    /\ life.ctx = "live"
    /\ life' = [life EXCEPT !.ctx = "cancelled"]
    /\ LifeFrame

\* <-ctx.Done() returns; s.srv.Shutdown(ctx) sets inShutdown and closes the
\* listeners
ShutdownBegin ==
    /\ life.process = "running"
    /\ life.shutdown = "waiting"
    /\ life.ctx = "cancelled"
    /\ life' = [life EXCEPT !.shutdown = "polling", !.inShutdown = TRUE,
                            !.listener = "closed"]
    /\ LifeFrame

\* ListenAndServe fails to listen: Run returns the wrapped error
ServeFail ==
    /\ life.process = "running"
    /\ life.run = "serving"
    /\ ~life.inShutdown
    /\ life.accepted = 0
    /\ life' = [life EXCEPT !.run = "returned", !.runErr = TRUE, !.listener = "closed"]
    /\ LifeFrame

\* ListenAndServe returns http.ErrServerClosed: Run returns nil
ServeReturn ==
    /\ life.process = "running"
    /\ life.run = "serving"
    /\ life.inShutdown
    /\ life' = [life EXCEPT !.run = "returned", !.runErr = FALSE]
    /\ LifeFrame

\* Shutdown, once the listeners' Serve calls have returned: it returns nil when
\* no connection is active, ctx.Err() when ctx is done, and polls again
\* otherwise
ShutdownPoll ==
    /\ life.process = "running"
    /\ life.shutdown = "polling"
    /\ life.run = "returned"
    /\ life' = IF Handling = {}
               THEN [life EXCEPT !.shutdown = "returned", !.shutdownErr = FALSE]
               ELSE IF life.ctx = "cancelled"
                    THEN [life EXCEPT !.shutdown = "returned", !.shutdownErr = TRUE]
                    ELSE life
    /\ LifeFrame

\* service.Server.Run and run return what frontend's Run returned; main
\* returns, or calls os.Exit(1): the process ends and takes the goroutines
\* that still run with it
Exit ==
    /\ life.process = "running"
    /\ life.run = "returned"
    /\ life' = [life EXCEPT !.process = "exited",
                            !.status = IF life.runErr THEN 1 ELSE 0,
                            !.handlers = [c \in Conns |->
                                             IF life.handlers[c] = "handling"
                                             THEN "killed" ELSE life.handlers[c]]]
    /\ LifeFrame

LifeNext ==
    \/ \E c \in Conns : Accept(c)
    \/ \E c \in Conns : Answer(c)
    \/ Signal
    \/ ShutdownBegin
    \/ ServeFail
    \/ ServeReturn
    \/ ShutdownPoll
    \/ Exit

\* the goroutines are scheduled fairly, and a handler returns in the end
LifeSpec ==
    /\ LifeInit
    /\ [][LifeNext]_vars
    /\ WF_vars(ShutdownBegin)
    /\ WF_vars(ServeReturn)
    /\ WF_vars(ShutdownPoll)
    /\ WF_vars(Exit)
    /\ \A c \in Conns : WF_vars(Answer(c))

(***************************************************************************)
(* The map store under concurrent callers: every request is served by its  *)
(* own goroutine, which calls Get and, after a miss and the fetch, Set on   *)
(* the one MAPCache.  The repository holds two MAPCache files: one guards   *)
(* the map with a sync.RWMutex, the other reads and writes the map bare.    *)
(* A map write is not atomic; a bare access made while a write is under    *)
(* way is a data race: the runtime may stop the process with "concurrent   *)
(* map writes" or "concurrent map read and map write", or the access goes  *)
(* through on a half-written entry.                                        *)
(***************************************************************************)
Callers == {1, 2, 3}

\* the entries the origin's responses give
ConcValues ==
    {StoreObj(TextPlain, "hi"), StoreObj(WithCC(TextPlain, <<IntArg("max-age=", 300)>>), "hello")}

\* a goroutine outside any request
IdleCaller == [pc |-> "idle", key |-> "", value |-> ZeroObj, found |-> FALSE, got |-> ZeroObj]

ConcInit ==
    /\ mapState \in {[synced |-> s, raced |-> FALSE, fatal |-> FALSE] : s \in BOOLEAN}
    /\ writer = NoWriter
    /\ callers = [p \in Callers |-> IdleCaller]
    /\ cache = <<>>
    /\ kind = "map"
    /\ ignoreHost = FALSE
    /\ backends = ("b.test" :> VhostClient)
    /\ now = 0
    /\ conn = [c \in Conns |-> Idle]
    /\ last = NoExchange
    /\ hits = 0 /\ misses = 0 /\ errors = 0 /\ nreq = 0 /\ fetched = 0 /\ lookups = 0
    /\ respHeaders = EmptyHeader
    /\ decision = NoDecision
    /\ getResult = NoGot
    /\ hist = NoCalls
    /\ procs = [p \in Procs |-> IdleProc]
    /\ torn = FALSE
    /\ log = <<>>
    /\ life = Serving

ConcFrame ==
    UNCHANGED <<ignoreHost, kind, backends, now, conn, last, hits, misses, errors, nreq,
                fetched, lookups, ttlVars, storeVars, routerVars, lifeVars, oldVars>>

\* the goroutines that hold s.mu for writing, for reading, and that wait in Lock
MuWriters == {p \in Callers : callers[p].pc \in {"set.begin", "set.store", "set.unlock"}}
MuReaders == {p \in Callers : callers[p].pc \in {"get.read", "get.runlock"}}
MuPending == {p \in Callers : callers[p].pc = "set.lock"}

\* the goroutines in the middle of s.cache[key] = value
Storing == {p \in Callers : callers[p].pc = "set.store"}

\* value with the headers of another entry: a half-written entry
HalfWritten(value, other) == [value EXCEPT !.Headers = other.Headers]

\* cacheable is entered for a request with this key: s.cache.Get(key) is called
StartGet(p, key) ==
    /\ ~mapState.fatal
    /\ callers[p].pc = "idle"
    /\ callers' = [callers EXCEPT ![p] =
                      [IdleCaller EXCEPT !.key = key,
                                         !.pc = IF mapState.synced THEN "get.rlock"
                                                ELSE "get.read"]]
    /\ UNCHANGED <<cache, mapState>>
    /\ ConcFrame

\* s.mu.RLock() returns
ConcRLock(p) ==
    /\ ~mapState.fatal
    /\ callers[p].pc = "get.rlock"
    /\ MuWriters = {} /\ MuPending = {}
    /\ callers' = [callers EXCEPT ![p].pc = "get.read"]
    /\ UNCHANGED <<cache, mapState>>
    /\ ConcFrame

\* what a read of the map can return while the goroutines in racing write it
ReadResults(key, racing) ==
    LET clean == mapcacheGet(cache, key)
        written == {callers[q].value : q \in {r \in racing : callers[r].key = key}}
        old == IF clean.found THEN {clean.value} ELSE {}
    IN  IF racing = {} THEN {clean}
        ELSE {clean, [value |-> ZeroObj, found |-> FALSE]}
             \cup {[value |-> v, found |-> TRUE] : v \in written}
             \cup {[value |-> HalfWritten(v, w), found |-> TRUE] : v \in written, w \in old \cup written}

\* value, found := s.cache[key]
ConcRead(p, crash) ==
    /\ ~mapState.fatal
    /\ callers[p].pc = "get.read"
    /\ LET racing == Storing \ {p} IN
       /\ crash => racing # {}
       /\ mapState' = [mapState EXCEPT !.raced = @ \/ racing # {}, !.fatal = crash]
       /\ \E r \in ReadResults(callers[p].key, racing) :
             callers' = [callers EXCEPT ![p].found = r.found, ![p].got = r.value,
                            ![p].pc = IF mapState.synced THEN "get.runlock"
                                      ELSE IF r.found THEN "done" ELSE "fetch"]
    /\ UNCHANGED cache
    /\ ConcFrame

\* the deferred s.mu.RUnlock(); Get returns
ConcRUnlock(p) ==
    /\ ~mapState.fatal
    /\ callers[p].pc = "get.runlock"
    /\ callers' = [callers EXCEPT ![p].pc = IF callers[p].found THEN "done" ELSE "fetch"]
    /\ UNCHANGED <<cache, mapState>>
    /\ ConcFrame

\* after the miss: the fetch returned this entry; s.cache.Set(key, objCore) is called
StartSet(p, value) ==
    /\ ~mapState.fatal
    /\ callers[p].pc = "fetch"
    /\ callers' = [callers EXCEPT ![p].value = value,
                                  ![p].pc = IF mapState.synced THEN "set.lock"
                                            ELSE "set.begin"]
    /\ UNCHANGED <<cache, mapState>>
    /\ ConcFrame

\* s.mu.Lock() returns
ConcLock(p) ==
    /\ ~mapState.fatal
    /\ callers[p].pc = "set.lock"
    /\ MuWriters = {} /\ MuReaders = {}
    /\ callers' = [callers EXCEPT ![p].pc = "set.begin"]
    /\ UNCHANGED <<cache, mapState>>
    /\ ConcFrame

\* s.cache[key] = value begins
ConcStoreBegin(p, crash) ==
    /\ ~mapState.fatal
    /\ callers[p].pc = "set.begin"
    /\ LET racing == Storing \ {p} IN
       /\ crash => racing # {}
       /\ mapState' = [mapState EXCEPT !.raced = @ \/ racing # {}, !.fatal = crash]
    /\ callers' = [callers EXCEPT ![p].pc = "set.store"]
    /\ UNCHANGED cache
    /\ ConcFrame

\* s.cache[key] = value is done
ConcStoreEnd(p) ==
    /\ ~mapState.fatal
    /\ callers[p].pc = "set.store"
    /\ LET same == {callers[q].value : q \in {r \in Storing \ {p} : callers[r].key = callers[p].key}}
       IN  \E v \in {callers[p].value} \cup {HalfWritten(callers[p].value, w) : w \in same} :
              cache' = (callers[p].key :> v) @@ cache
    /\ callers' = [callers EXCEPT ![p].pc = IF mapState.synced THEN "set.unlock" ELSE "done"]
    /\ UNCHANGED mapState
    /\ ConcFrame

\* the deferred s.mu.Unlock(); Set returns
ConcUnlock(p) ==
    /\ ~mapState.fatal
    /\ callers[p].pc = "set.unlock"
    /\ callers' = [callers EXCEPT ![p].pc = "done"]
    /\ UNCHANGED <<cache, mapState>>
    /\ ConcFrame

ConcNext ==
    \/ \E p \in Callers, key \in StoreKeys : StartGet(p, key)
    \/ \E p \in Callers : ConcRLock(p)
    \/ \E p \in Callers, crash \in BOOLEAN : ConcRead(p, crash)
    \/ \E p \in Callers : ConcRUnlock(p)
    \/ \E p \in Callers, value \in ConcValues : StartSet(p, value)
    \/ \E p \in Callers : ConcLock(p)
    \/ \E p \in Callers, crash \in BOOLEAN : ConcStoreBegin(p, crash)
    \/ \E p \in Callers : ConcStoreEnd(p)
    \/ \E p \in Callers : ConcUnlock(p)

ConcSpec == ConcInit /\ [][ConcNext]_vars

(***************************************************************************)
(* The handler of src/frontend/frontend.go: cacheable over a cache.Store   *)
(* and one backend.Client, writing to an http.ResponseWriter.  The header  *)
(* map the handler holds stays writable for ever; what the client is sent  *)
(* is the copy the server takes of it at WriteHeader.                      *)
(***************************************************************************)
\* the http.ResponseWriter a handler is called with
NewWriter ==
    [header |-> EmptyHeader, wroteHeader |-> FALSE, status |-> 0, sent |-> EmptyHeader,
     body |-> ""]

\* resp.Header().Add(k, v)
WriterAdd(w, k, v) == [w EXCEPT !.header = HAdd(@, k, v)]

\* for k, v := range src { resp.Header()[k] = v }
WriterCopy(w, src) == [w EXCEPT !.header = HCopy(@, src)]

\* resp.WriteHeader(status): the status line and the header map as it is now
\* go out; a second call is ignored
WriterWriteHeader(w, status) ==
    IF w.wroteHeader THEN w
    ELSE [w EXCEPT !.wroteHeader = TRUE, !.status = status, !.sent = w.header]

\* resp.Write(body): writes the header with 200 first when it is not yet out
WriterWrite(w, body) ==
    [WriterWriteHeader(w, 200) EXCEPT !.body = @ \o body]

\* http.Error(resp, msg, status)
WriterError(w, status) ==
    WriterWrite(WriterWriteHeader([w EXCEPT !.header = ErrorHeader], status), ReadErrorBody)

\* frontend.makeKey: sha256 over r.Host and r.URL.Path
makeKey(r) == r.host \o r.path

\* the requests the handler is called for
OldRequests == {r \in Requests : r[1] \in {"GET", "HEAD"}}

\* the completed call of the handler: the request, the branch taken, what
\* Fetch returned, whether Set was called, and the writer as the handler left
\* it
OldExchange(n, req, route, beResp, stored, w) ==
    [n |-> n, req |-> req, route |-> route, beResp |-> beResp, stored |-> stored, rw |-> w]

\* cacheable, hit branch
OldHit(req, obj) ==
    LET w1 == WriterCopy(NewWriter, obj.Headers)
        w2 == WriterAdd(w1, "X-Cache", "hit")
        w3 == WriterWriteHeader(w2, 200)
    IN  WriterWrite(w3, obj.Body)

\* cacheable, miss branch: the reply once the body has been read
OldMissReply(clean, beResp) ==
    LET w1 == WriterCopy(NewWriter, clean)
        w2 == WriterWriteHeader(w1, beResp.StatusCode)
        w3 == WriterWrite(w2, beResp.Body)
    IN  WriterAdd(w3, "X-Cache", "miss")

OldInit ==
    /\ writer = NoWriter
    /\ cache = <<>>
    /\ now = 0
    /\ kind = "lru"
    /\ ignoreHost = FALSE
    /\ backends = ("b.test" :> VhostClient)
    /\ conn = [c \in Conns |-> Idle]
    /\ last = NoExchange
    /\ hits = 0 /\ misses = 0 /\ errors = 0 /\ nreq = 0 /\ fetched = 0 /\ lookups = 0
    /\ respHeaders = EmptyHeader
    /\ decision = NoDecision
    /\ getResult = NoGot
    /\ hist = NoCalls
    /\ procs = [p \in Procs |-> IdleProc]
    /\ torn = FALSE
    /\ log = <<>>
    /\ life = Serving
    /\ callers = <<>>
    /\ mapState = NoMap

OldFrame ==
    UNCHANGED <<ignoreHost, kind, backends, now, conn, last, hits, misses, errors, nreq,
                fetched, lookups, ttlVars, storeVars, routerVars, lifeVars, concVars>>

\* Server.cacheable of src/frontend/frontend.go
OldCacheable(r, roundTrip) ==
    /\ writer.n < MaxReq + 1
    /\ roundTrip \in RoundTrips(r[3])
    /\ LET req == Request(writer.n + 1, r[1], r[2], r[3], r[4], r[5])
           key == makeKey(req)
           got == lrucacheGet(cache, key, now)
           fetch == ClientFetch(DefaultClient, BackendRequest(req, FALSE), roundTrip)
           beResp == fetch.resp
           clean == CleanHeader(beResp.Header)
           obj == ObjCore(clean, beResp.Body, req, Sent(TRUE, beResp.Body, now))
       IN  IF got.found
           THEN /\ writer' = OldExchange(writer.n + 1, req, "hit", NoResponse, FALSE,
                                         OldHit(req, got.value))
                /\ cache' = cache
           ELSE IF beResp.readErr
           THEN /\ writer' = OldExchange(writer.n + 1, req, "miss", beResp, FALSE,
                                         WriterError(NewWriter, 500))
                /\ cache' = cache
           ELSE /\ writer' = OldExchange(writer.n + 1, req, "miss", beResp, fetch.ok,
                                         OldMissReply(clean, beResp))
                /\ cache' \in (IF fetch.ok THEN lrucacheSet(cache, key, obj, now)
                               ELSE {cache})
    /\ OldFrame

\* time passes
OldTick ==
    /\ \E t \in ClockValues : t > now /\ now' = t
    /\ UNCHANGED <<ignoreHost, kind, backends, cache, conn, last, hits, misses, errors,
                   nreq, fetched, lookups, writer>>
    /\ UNCHANGED <<ttlVars, storeVars, routerVars, lifeVars, concVars>>

OldNext ==
    \/ \E r \in OldRequests, roundTrip \in RoundTrips("/p") \cup RoundTrips(NoStorePath) :
          OldCacheable(r, roundTrip)
    \/ OldTick

OldSpec == OldInit /\ [][OldNext]_vars

(***************************************************************************)
(* Vocabulary of the properties.                                           *)
(***************************************************************************)
\* the stored item under key k is retrievable: neither evicted nor expired
Live(k) ==
    k \in DOMAIN cache /\ (cache[k].expiration = 0 \/ now < cache[k].expiration)

\* the request the next accepted exchange gets, for r \in Requests
NewReq(r) == Request(nreq + 1, r[1], r[2], r[3], r[4], r[5])

\* this step accepts request req: it is answered at once or waits for its fetch
Accepts(req) ==
    nreq' = nreq + 1 /\ (last'.req = req \/ \E c \in Conns : conn'[c].req = req)

\* this step completes an exchange
Completes == last'.req.id # last.req.id

XCache(exchange) == exchange.Header["X-Cache"]

(***************************************************************************)
(* C1: once a GET has missed, been fetched with ok=true and its response   *)
(* has been stored, every GET for the same host and path accepted while    *)
(* that entry is stored and not expired is answered X-Cache: hit with the  *)
(* body the first response carried, and backend.Fetch is not called.       *)
(***************************************************************************)
C1_Step ==
    \A r \in Requests : \A k \in DOMAIN cache :
        ( /\ r[1] = "GET"
          /\ Accepts(NewReq(r))
          /\ Live(k)
          /\ cache[k].by.method = "GET"
          /\ cache[k].by.host = r[2]
          /\ cache[k].by.path = r[3]
          /\ cache[k].sent.ok )
        => /\ last'.req = NewReq(r)
           /\ XCache(last') = <<"hit">>
           /\ last'.written = cache[k].sent.body
           /\ last'.fetches = 0
           /\ fetched' = fetched

C1_HitAfterStore == [][C1_Step]_vars

\* a GET was answered from an entry that an earlier GET for the same host and
\* path stored
C1_Witness ==
    /\ last.route = "hit"
    /\ last.req.method = "GET"
    /\ last.served.by.method = "GET"
    /\ last.served.by.host = last.req.host
    /\ last.served.by.path = last.req.path
    /\ last.served.by.id < last.req.id
    /\ last.served.sent.ok
    /\ last.written = "hello"
    /\ fetched = 1

(***************************************************************************)
(* C2: the origin answers Cache-Control: no-store: nothing is stored,      *)
(* every GET for that resource is answered X-Cache: miss after exactly one *)
(* call of backend.Fetch, however many came before it.                     *)
(***************************************************************************)
C2_NoStoreNeverStored ==
    /\ \A k \in DOMAIN cache : cache[k].by.path # NoStorePath
    /\ (last.req.method = "GET" /\ last.req.path = NoStorePath)
          => /\ XCache(last) = <<"miss">>
             /\ last.route = "miss"
             /\ last.fetches = 1
             /\ ~last.stored

\* a first GET for the no-store resource was answered miss from the origin's
\* response, and the identical GET that followed it has missed again
C2_Witness ==
    /\ last.req = Request(1, "GET", "a.test", NoStorePath, "", "")
    /\ ~last.roundTrip.err
    /\ XCache(last) = <<"miss">>
    /\ conn[1].pc = "fetch"
    /\ conn[1].req = Request(2, "GET", "a.test", NoStorePath, "", "")
    /\ misses = 2
    /\ fetched = 1

(***************************************************************************)
(* C3: with ignoreHost=false an entry stored for host A and path p is      *)
(* never served to a request for another host B and the same path p, and a *)
(* request for host A and path p is answered from it as long as it is      *)
(* stored and not expired.                                                 *)
(***************************************************************************)
C3_Isolated ==
    (~ignoreHost /\ last.route = "hit")
        => /\ last.served.by.host = last.req.host
           /\ last.served.by.path = last.req.path

C3_Step ==
    \A r \in Requests : \A k \in DOMAIN cache :
        ( /\ ~ignoreHost
          /\ r[1] \in {"GET", "HEAD"}
          /\ Accepts(NewReq(r))
          /\ Live(k)
          /\ cache[k].by.host = r[2]
          /\ cache[k].by.path = r[3] )
        => /\ last'.req = NewReq(r)
           /\ XCache(last') = <<"hit">>
           /\ last'.served = cache[k]

C3_HostIsolation == []C3_Isolated /\ [][C3_Step]_vars

\* host A's response for /p is stored, and a later request of host B for /p
\* has missed and been fetched
C3_Witness ==
    /\ ~ignoreHost
    /\ \E k \in DOMAIN cache :
          /\ Live(k)
          /\ cache[k].by.host = "a.test"
          /\ cache[k].by.path = "/p"
          /\ cache[k].by.id < last.req.id
    /\ last.req.host = "b.test"
    /\ last.req.path = "/p"
    /\ last.req.method = "GET"
    /\ last.route = "miss"

(***************************************************************************)
(* C4: with ignoreHost=true the key depends on the path alone: once the    *)
(* response of a request for host A and path p is stored, a GET or HEAD    *)
(* for any host with path p is a hit and is written the stored body.       *)
(***************************************************************************)
C4_Step ==
    \A r \in Requests : \A k \in DOMAIN cache :
        ( /\ ignoreHost
          /\ r[1] \in {"GET", "HEAD"}
          /\ Accepts(NewReq(r))
          /\ Live(k)
          /\ cache[k].by.path = r[3] )
        => /\ last'.req = NewReq(r)
           /\ XCache(last') = <<"hit">>
           /\ last'.written = cache[k].Body
           /\ last'.fetches = 0

C4_IgnoreHostShares == [][C4_Step]_vars

\* a request for host B was answered from the entry host A's request stored
C4_Witness ==
    /\ ignoreHost
    /\ last.route = "hit"
    /\ last.req.host = "b.test"
    /\ last.served.by.host = "a.test"
    /\ last.served.by.path = last.req.path
    /\ last.written = last.served.Body
    /\ last.written # ""

(***************************************************************************)
(* C5: a request whose method is neither GET nor HEAD is forwarded to the  *)
(* backend, one Fetch per request, whether or not an entry is stored for   *)
(* its key; it leaves the store and the hit and miss counters unchanged    *)
(* and its response carries no X-Cache header.                             *)
(***************************************************************************)
C5_Step ==
    \A r \in Requests :
        (r[1] \notin {"GET", "HEAD"} /\ Accepts(NewReq(r)))
        => /\ last'.req = NewReq(r)
           /\ last'.route = "pass"
           /\ last'.fetches = 1
           /\ fetched' = fetched + 1
           /\ cache' = cache
           /\ hits' = hits
           /\ misses' = misses
           /\ XCache(last') = <<>>

C5_PassThroughFrame == [][C5_Step]_vars

\* a POST was forwarded while an entry for its host and path was stored
C5_Witness ==
    /\ last.route = "pass"
    /\ last.req.method = "POST"
    /\ last.ok
    /\ \E k \in DOMAIN cache :
          /\ Live(k)
          /\ k = MakeKey(last.req, ignoreHost)
          /\ cache[k].by.id < last.req.id

(***************************************************************************)
(* C6: Client.Fetch never returns a nil response; it returns ok=true with  *)
(* the backend's own response when the round trip succeeds, and ok=false   *)
(* exactly when the round trip fails, then with the synthetic response:    *)
(* status 500, the fixed body, X-Backend-Name: nuts.                       *)
(***************************************************************************)
C6_FetchContract ==
    last.fetches = 1
        => /\ last.beResp # NoResponse
           /\ last.ok <=> ~last.roundTrip.err
           /\ last.ok => last.beResp = last.roundTrip.resp
           /\ ~last.ok => /\ last.beResp.StatusCode = 500
                          /\ last.beResp.Body = NutsBody
                          /\ last.beResp.Header["X-Backend-Name"] = <<"nuts">>

\* a round trip failed and Fetch returned the synthetic response
C6_Witness ==
    /\ last.fetches = 1
    /\ last.roundTrip.err
    /\ ~last.ok
    /\ last.beResp = nuts

(***************************************************************************)
(* C7: when the fetch of a GET or HEAD fails (ok=false) the synthetic      *)
(* response is never stored: the store is left as it was, and a following  *)
(* request whose key has no live entry is again a miss that fetches.       *)
(***************************************************************************)
C7_NoNutsStored ==
    \A k \in DOMAIN cache :
        /\ cache[k].Headers["X-Backend-Name"] = <<>>
        /\ cache[k].Body # NutsBody

C7_Step ==
    /\ (Completes /\ last'.route = "miss" /\ ~last'.ok)
          => (cache' = cache /\ ~last'.stored)
    /\ \A r \in Requests :
          ( /\ r[1] \in {"GET", "HEAD"}
            /\ Accepts(NewReq(r))
            /\ ~Live(MakeKey(NewReq(r), ignoreHost)) )
          => /\ \E c \in Conns : conn'[c].pc = "fetch" /\ conn'[c].req = NewReq(r)
             /\ misses' = misses + 1

C7_FailedFetchNotStored == []C7_NoNutsStored /\ [][C7_Step]_vars

\* a GET's fetch failed, nothing was stored, and the next request for the same
\* host and path has missed again
C7_Witness ==
    /\ last.route = "miss"
    /\ last.req.method = "GET"
    /\ ~last.ok
    /\ ~last.stored
    /\ cache = <<>>
    /\ \E c \in Conns :
          /\ conn[c].pc = "fetch"
          /\ conn[c].req.host = last.req.host
          /\ conn[c].req.path = last.req.path
          /\ conn[c].req.id > last.req.id

(***************************************************************************)
(* C8: whatever the method, when the fetch fails (ok=false) the dispatcher *)
(* still completes the exchange: it sets status 500 and writes the         *)
(* synthetic body, on the path a real backend response takes.              *)
(***************************************************************************)
C8_FailedFetchAnswered ==
    (last.fetches = 1 /\ ~last.ok)
        => /\ last.status = 500
           /\ last.written = NutsBody
           /\ last.route \in {"miss", "pass"}

\* a POST whose fetch failed was answered 500 with the synthetic body
C8_Witness ==
    /\ last.route = "pass"
    /\ last.req.method = "POST"
    /\ ~last.ok
    /\ last.status = 500
    /\ last.written = NutsBody

(***************************************************************************)
(* C9: every request whose fetch fails (ok=false) increments the error     *)
(* counter.                                                                *)
(***************************************************************************)
C9_Step ==
    (Completes /\ last'.fetches = 1 /\ ~last'.ok) => errors' = errors + 1

C9_FailedFetchCounted == [][C9_Step]_vars

(***************************************************************************)
(* C10: in the store the service constructs, after any sequence of Sets    *)
(* the body lengths of the stored items sum to at most the configured      *)
(* maximum cost.                                                           *)
(***************************************************************************)
C10_CostBounded == kind = "map" => TotalCost(cache) <= MaxCost

(***************************************************************************)
(* C11: after any sequence of Set calls the number of entries stored is at *)
(* most the configured maximum object count.                               *)
(***************************************************************************)
C11_CountBounded == kind = "map" => Cardinality(DOMAIN cache) <= MaxObj

(***************************************************************************)
(* C12: an entry whose body is longer than the whole configured cost       *)
(* budget is never admitted: after Set of such an entry, Get for its key   *)
(* does not return it.                                                     *)
(***************************************************************************)
C12_OversizedNotAdmitted ==
    (kind = "map" /\ getResult.called /\ getResult.found)
        => Len(getResult.value.Body) <= MaxCost

(***************************************************************************)
(* C13: an entry stored with an explicit lifetime t, through SetWithTTL or *)
(* through Set with headers that give one, is returned by Get only at      *)
(* times earlier than t after its insertion.                               *)
(***************************************************************************)
\* the lifetime the recorded call gave its entry (0: none)
C13_Lifetime(call) ==
    IF call.op = "SetWithTTL" THEN call.ttl
    ELSE IF call.value.Headers["Cache-Control"] # <<>>
         THEN call.value.Headers["Cache-Control"][1][1].n
         ELSE 0

C13_ExpiredNotFound ==
    ( /\ kind = "map"
      /\ getResult.called
      /\ getResult.found
      /\ hist.set[getResult.key].value = getResult.value
      /\ C13_Lifetime(hist.set[getResult.key]) > 0 )
    => getResult.at < hist.set[getResult.key].at + C13_Lifetime(hist.set[getResult.key])

(***************************************************************************)
(* C14: a cacheable response with neither a usable Cache-Control lifetime  *)
(* nor a usable Expires header gets the decision DefaultTTL, and the entry *)
(* stored for it is no longer served as a hit once 5 minutes have passed   *)
(* since it was stored.                                                    *)
(***************************************************************************)
C14_Step ==
    ( /\ Completes
      /\ last'.route = "hit"
      /\ last'.served.Headers["Cache-Control"] = <<>>
      /\ last'.served.Headers["Expires"] = <<>> )
    => now < last'.served.sent.at + defaultTTL

C14_DefaultLifetimeApplied == [][C14_Step]_vars

(***************************************************************************)
(* Vocabulary of the TTL decision: what the header says, read off the      *)
(* header itself.                                                          *)
(***************************************************************************)
\* the directives of the Cache-Control header (none when it is absent)
Directives(h) == IF h["Cache-Control"] = <<>> THEN <<>> ELSE h["Cache-Control"][1]

Forbids(d) == d \in {Flag("no-store"), Flag("private"), Flag("no-cache")}

\* directive d is <name>N with N a positive integer
GivesLifetime(d, name) == d.name = name /\ d.isInt /\ d.n > 0

SomeForbids(h) == \E i \in 1..Len(Directives(h)) : Forbids(Directives(h)[i])

SomeLifetime(h) ==
    \E i \in 1..Len(Directives(h)) :
        GivesLifetime(Directives(h)[i], "s-maxage=") \/ GivesLifetime(Directives(h)[i], "max-age=")

(***************************************************************************)
(* C15: if any directive of the Cache-Control list is no-store, private or *)
(* no-cache, wherever in the list it stands, the decision is DoNotCache    *)
(* (0 in the dispatcher, negative in the store).                           *)
(***************************************************************************)
C15_ForbiddenNeverCached ==
    (decision.done /\ SomeForbids(respHeaders))
        => (decision.frontend = 0 /\ decision.lrucache < 0)

(***************************************************************************)
(* C16: with both s-maxage=N and max-age=M in the Cache-Control header, N  *)
(* and M positive, and no directive that forbids caching, the decision is  *)
(* N seconds whichever of the two comes first.                             *)
(***************************************************************************)
C16_SMaxAgeWins ==
    ( /\ decision.done
      /\ ~SomeForbids(respHeaders)
      /\ \E i \in 1..Len(Directives(respHeaders)) :
            GivesLifetime(Directives(respHeaders)[i], "s-maxage=")
      /\ \E j \in 1..Len(Directives(respHeaders)) :
            GivesLifetime(Directives(respHeaders)[j], "max-age=") )
    => \E i \in 1..Len(Directives(respHeaders)) :
          /\ GivesLifetime(Directives(respHeaders)[i], "s-maxage=")
          /\ decision.frontend = Directives(respHeaders)[i].n
          /\ decision.lrucache = Directives(respHeaders)[i].n

(***************************************************************************)
(* C17: Expires decides only when Cache-Control yields no lifetime: the    *)
(* lifetime is then (Expires - now) minus Age when Age is a positive       *)
(* integer; zero or less gives DoNotCache, a positive result is the        *)
(* lifetime.  When Cache-Control yields max-age or s-maxage, Expires and   *)
(* Age are not consulted.                                                  *)
(***************************************************************************)
\* the Age to subtract: the header's value when it is a positive integer
C17_Age(h) ==
    IF h["Age"] # <<>> /\ h["Age"][1].isInt /\ h["Age"][1].n > 0 THEN h["Age"][1].n ELSE 0

C17_Remaining(h, t) == h["Expires"][1].t - t - C17_Age(h)

C17_ExpiresDecides ==
    decision.done =>
       /\ ( /\ ~SomeForbids(respHeaders)
            /\ ~SomeLifetime(respHeaders)
            /\ respHeaders["Expires"] # <<>>
            /\ respHeaders["Expires"][1].parsed )
          => IF C17_Remaining(respHeaders, now) <= 0
             THEN decision.frontend = 0 /\ decision.lrucache < 0
             ELSE /\ decision.frontend = C17_Remaining(respHeaders, now)
                  /\ decision.lrucache = C17_Remaining(respHeaders, now)
       /\ (~SomeForbids(respHeaders) /\ SomeLifetime(respHeaders))
          => \E i \in 1..Len(Directives(respHeaders)) :
                /\ \/ GivesLifetime(Directives(respHeaders)[i], "s-maxage=")
                   \/ GivesLifetime(Directives(respHeaders)[i], "max-age=")
                /\ decision.frontend = Directives(respHeaders)[i].n
                /\ decision.lrucache = Directives(respHeaders)[i].n

\* Expires 200 s ahead and Age 100 with no lifetime in Cache-Control: 100 s
C17_Witness ==
    /\ decision.done
    /\ now = 0
    /\ Directives(respHeaders) = <<Flag("must-revalidate")>>
    /\ respHeaders["Expires"] = <<ExpiresAt(200)>>
    /\ respHeaders["Age"] = <<IntArg("", 100)>>
    /\ decision.frontend = 100
    /\ decision.lrucache = 100

(***************************************************************************)
(* C18: GetBackend and Fetch use, for a request host h, the client most    *)
(* recently registered by AddBackend for exactly the string h, and the     *)
(* default client when none was; the lookup never returns nil.             *)
(***************************************************************************)
RECURSIVE LastRegistered(_, _, _)
\* the client of the last of the first n registrations made for host h
LastRegistered(registrations, n, h) ==
    IF n = 0 THEN DefaultClient
    ELSE IF registrations[n][1] = h THEN registrations[n][2]
    ELSE LastRegistered(registrations, n - 1, h)

\* the lookup reads the table
C18_Step ==
    \A p \in Procs :
        (procs[p].pc = "get.read" /\ procs'[p].pc = "get.runlock")
        => /\ procs'[p].result = LastRegistered(log, Len(log), procs[p].beReq.Host)
           /\ procs'[p].result # NilClient

\* Fetch sends through the client the lookup returned
C18_FetchUsesLookup ==
    \A p \in Procs :
        procs[p].pc = "roundtrip"
        => /\ procs[p].result # NilClient
           /\ procs[p].sent.dial = <<procs[p].result.target, procs[p].result.port>>

C18_RouterLookup == []C18_FetchUsesLookup /\ [][C18_Step]_vars

\* b.test was registered twice and a Fetch for b.test goes to the later client,
\* while a Fetch for b.test:8080 goes to the default client
C18_Witness ==
    /\ log = << <<"b.test", VhostClient>>, <<"b.test", OtherClient>> >>
    /\ \E p \in Procs :
          /\ procs[p].pc = "roundtrip"
          /\ procs[p].beReq.Host = "b.test"
          /\ procs[p].result = OtherClient
          /\ procs[p].sent.dial = <<"origin.c", 9000>>
    /\ \E q \in Procs :
          /\ procs[q].pc = "roundtrip"
          /\ procs[q].beReq.Host = "b.test:8080"
          /\ procs[q].result = DefaultClient

(***************************************************************************)
(* C19: AddBackend may run concurrently with any number of lookups: a      *)
(* writer has the routing map to itself, a lookup never sees a partial     *)
(* update, and lookups hold the lock together without blocking each other. *)
(***************************************************************************)
C19_SafeConcurrentRegistration ==
    /\ Cardinality(Writers) <= 1
    /\ Writers # {} => Readers = {}
    /\ torn => Writers # {}
    /\ \A p \in Procs : ~procs[p].sawTorn
    /\ \A p \in Procs :
          (procs[p].pc = "get.rlock" /\ Writers = {} /\ Pending = {})
              => ENABLED GetRLock(p)

\* two lookups hold the lock together while an AddBackend waits for it
C19_Witness ==
    /\ Cardinality(Readers) = 2
    /\ Pending # {}
    /\ log # <<>>

(***************************************************************************)
(* C20: a backend Client always connects to its configured scheme, host    *)
(* and port, whatever scheme, host or URL the request handed to Fetch      *)
(* carries.                                                                *)
(***************************************************************************)
C20_FixedSchemeAndTarget ==
    \A p \in Procs :
        procs[p].pc = "roundtrip"
        => /\ procs[p].sent.dial = <<procs[p].result.target, procs[p].result.port>>
           /\ procs[p].sent.scheme = procs[p].result.scheme

\* C20, as the code has it: the client always dials its configured host and
\* port and leaves the Host header and the URL as they are; it sends with its
\* configured scheme when the request's URL carries none, and with the
\* request's own scheme otherwise.
C20_FixedTarget ==
    \A p \in Procs :
        procs[p].pc = "roundtrip"
        => /\ procs[p].sent.dial = <<procs[p].result.target, procs[p].result.port>>
           /\ procs[p].sent.Host = procs[p].beReq.Host
           /\ procs[p].sent.URLHost = procs[p].beReq.URLHost
           /\ procs[p].sent.scheme = IF procs[p].beReq.scheme = ""
                                     THEN procs[p].result.scheme
                                     ELSE procs[p].beReq.scheme

\* a request whose URL names another host and the scheme http is sent by the
\* https default client to the client's own host and port, as http
C20_Witness ==
    \E p \in Procs :
        /\ procs[p].pc = "roundtrip"
        /\ procs[p].beReq.URLHost = "elsewhere.test"
        /\ procs[p].beReq.scheme = "http"
        /\ procs[p].result = DefaultClient
        /\ procs[p].sent.dial = <<"origin.default", 443>>
        /\ procs[p].sent.scheme = "http"

(***************************************************************************)
(* C21: on every path that reaches the backend, the cacheable miss and the *)
(* pass-through, through a registered client or the default one, the Host  *)
(* of the request sent to the backend is the Host of the client's request, *)
(* never the address the backend client dials.                             *)
(***************************************************************************)
C21_HostPreserved ==
    last.fetches = 1
        => /\ last.beReq.Host = last.req.host
           /\ last.beReq.URLHost = last.req.host
           /\ last.beReq.Host # last.beReq.dial[1]
           /\ last.beReq.dial = <<GetBackend(backends, last.req.host).target,
                                   GetBackend(backends, last.req.host).port>>

\* a GET for b.test missed and was sent to the client registered for b.test,
\* at origin.b:8080, with Host b.test
C21_Witness ==
    /\ last.route = "miss"
    /\ last.req.method = "GET"
    /\ last.req.host = "b.test"
    /\ last.beReq.Host = "b.test"
    /\ last.beReq.dial = <<"origin.b", 8080>>
    /\ last.ok

(***************************************************************************)
(* Vocabulary of the store's calls.                                        *)
(***************************************************************************)
\* this step is a call of Get on the store
IsGet == getResult'.called /\ hist' = hist /\ now' = now /\ cache' = cache

\* the Get of this step returned the headers and the body of this call's value
Returns(call) ==
    /\ getResult'.value.Headers = call.value.Headers
    /\ getResult'.value.Body = call.value.Body

(***************************************************************************)
(* C22: Get returns found only for a key that was Set before, and then     *)
(* exactly the headers and the body of the most recent Set for that key;   *)
(* Get for a key that was never Set returns not found.                     *)
(***************************************************************************)
C22_Step ==
    IsGet =>
       /\ getResult'.key \notin DOMAIN hist.set => ~getResult'.found
       /\ getResult'.found => Returns(hist.set[getResult'.key])

C22_GetReturnsLastSet == [][C22_Step]_vars

\* C22, as the code has it: Get returns found only for a key that was Set
\* before, and then exactly the headers and the body, both of the same call,
\* of the most recent Set for that key that left its entry in the store; in
\* the map store that is the most recent Set.  A Set that the store drops (a
\* no-op for DoNotCache headers, an entry the cost budget rejects) leaves the
\* entry of the earlier Set to be returned.
C22_KeptStep ==
    IsGet =>
       /\ getResult'.key \notin DOMAIN hist.set => ~getResult'.found
       /\ getResult'.found =>
             /\ getResult'.key \in DOMAIN hist.kept
             /\ Returns(hist.kept[getResult'.key])
             /\ kind = "map" => Returns(hist.set[getResult'.key])

C22_GetReturnsLastKept == [][C22_KeptStep]_vars

\* k1 was Set twice with different headers and bodies, then with no-store
\* headers: Get returns the headers and the body of the second Set
C22_Witness ==
    /\ kind = "lru"
    /\ hist.n = 3
    /\ DOMAIN hist.set = {"k1"}
    /\ DOMAIN hist.kept = {"k1"}
    /\ hist.set["k1"].value = StoreObj(WithCC(TextPlain, <<Flag("no-store")>>), "hello")
    /\ hist.kept["k1"].value = StoreObj(WithCC(TextPlain, <<IntArg("max-age=", 300)>>), "hello")
    /\ hist.kept["k1"].op = "Set"
    /\ getResult.called
    /\ getResult.key = "k1"
    /\ getResult.found
    /\ getResult.value.Headers = WithCC(TextPlain, <<IntArg("max-age=", 300)>>)
    /\ getResult.value.Body = "hello"

(***************************************************************************)
(* C23: Set is a no-op when the entry's headers yield DoNotCache           *)
(* (no-store, private, no-cache, or an Expires time already reached): the  *)
(* store's contents are the same after the call as before it.              *)
(***************************************************************************)
\* the headers forbid caching, or name an Expires time that has been reached
\* and no lifetime
YieldsDoNotCache(h, t) ==
    \/ SomeForbids(h)
    \/ /\ ~SomeLifetime(h)
       /\ h["Expires"] # <<>>
       /\ h["Expires"][1].parsed
       /\ h["Expires"][1].t <= t

\* this step is a call of Set for key
IsSet(key) ==
    /\ hist'.n = hist.n + 1
    /\ key \in DOMAIN hist'.set
    /\ hist'.set = (key :> hist'.set[key]) @@ hist.set
    /\ hist'.set[key].op = "Set"
    /\ hist'.set[key].at = now

C23_Step ==
    \A key \in StoreKeys :
        ( /\ kind = "map"
          /\ IsSet(key)
          /\ YieldsDoNotCache(hist'.set[key].value.Headers, now) )
        => cache' = cache

C23_DoNotCacheSetIsNoOp == [][C23_Step]_vars

(***************************************************************************)
(* C24: after the shutdown signal cancels the context the frontend stops   *)
(* accepting new connections, the requests in flight are allowed to        *)
(* complete, and Run returns nil so that the process exits with status     *)
(* zero.  In its final state: a process that has exited after a signal     *)
(* exited with status zero, with its listener closed and with no request   *)
(* cut off while it was being handled.                                     *)
(***************************************************************************)
C24_GracefulShutdown ==
    (life.process = "exited" /\ life.ctx = "cancelled" /\ ~life.runErr)
        => /\ life.status = 0
           /\ life.listener = "closed"
           /\ \A c \in Conns : life.handlers[c] # "killed"

(***************************************************************************)
(* C25: the store's operations are safe under any number of concurrent     *)
(* callers: no Get or Set touches the map while another goroutine writes   *)
(* it, at most one goroutine writes at a time, the runtime never stops the *)
(* process over a concurrent map access, and every Get that finds an entry *)
(* returns a complete entry written by one Set.                            *)
(***************************************************************************)
C25_ConcurrentStoreSafe ==
    /\ ~mapState.raced
    /\ ~mapState.fatal
    /\ Cardinality(Storing) <= 1
    /\ \A p \in Callers : callers[p].found => callers[p].got \in ConcValues

(***************************************************************************)
(* C26: two requests for the same key miss concurrently, both fetch and    *)
(* both Set: once both have finished the store holds for that key one      *)
(* entry, the headers and the body of one of the responses as a whole, and *)
(* neither request has failed because of the other.                        *)
(***************************************************************************)
\* the goroutines whose request for key missed and has stored its response
Populated(key) ==
    {p \in Callers : /\ callers[p].key = key
                     /\ ~callers[p].found
                     /\ callers[p].pc \in {"set.unlock", "done"}}

C26_ConcurrentMissesLastWriteWins ==
    \A key \in StoreKeys :
        Cardinality(Populated(key)) >= 2
            => /\ ~mapState.fatal
               /\ key \in DOMAIN cache
               /\ cache[key] \in {callers[p].value : p \in Populated(key)}

(***************************************************************************)
(* C27: the cache key ignores the query string, the method and the request *)
(* headers: once a GET or HEAD for a host and path has been stored, a GET  *)
(* or HEAD for the same host and path, whatever its query string, its      *)
(* method of the two and its headers, accepted while the entry is stored   *)
(* and not expired, is a hit and is written the stored body.               *)
(***************************************************************************)
C27_Step ==
    \A r \in KeyRequests : \A k \in DOMAIN cache :
        ( /\ Accepts(NewReq(r))
          /\ Live(k)
          /\ cache[k].by.host = r[2]
          /\ cache[k].by.path = r[3] )
        => /\ last'.req = NewReq(r)
           /\ XCache(last') = <<"hit">>
           /\ last'.served = cache[k]
           /\ last'.written = cache[k].Body
           /\ last'.fetches = 0
           /\ fetched' = fetched

C27_KeyIgnoresQueryMethodHeaders == [][C27_Step]_vars

\* the response to a HEAD without query string was stored, and a GET with the
\* query string x=1 for the same host and path was answered from it
C27_Witness ==
    /\ last.route = "hit"
    /\ last.req.method = "GET"
    /\ last.req.query = "x=1"
    /\ last.served.by.method = "HEAD"
    /\ last.served.by.query = ""
    /\ last.served.by.host = last.req.host
    /\ last.served.by.path = last.req.path
    /\ last.written = "hello"

(***************************************************************************)
(* C28: a HEAD request that misses is sent to the backend as a GET and the *)
(* fetched body is stored, so that a later GET for the same key is a hit   *)
(* that is written the full body; the request received from the client     *)
(* keeps its HEAD method.                                                  *)
(***************************************************************************)
C28_HeadSentAsGet ==
    (last.route = "miss" /\ last.req.method = "HEAD")
        => /\ last.fetches = 1
           /\ last.beReq.Method = "GET"
           /\ last.beReq.Host = last.req.host
           /\ last.beReq.Path = last.req.path

C28_Step ==
    /\ (Completes /\ last'.route = "miss" /\ last'.req.method = "HEAD" /\ last'.stored)
          => LET key == MakeKey(last'.req, ignoreHost) IN
             /\ kind = "map" => key \in DOMAIN cache'
             /\ (key \in DOMAIN cache' /\ cache'[key].by = last'.req)
                   => cache'[key].Body = last'.beResp.Body
    /\ \A r \in Requests : \A k \in DOMAIN cache :
          ( /\ r[1] = "GET"
            /\ Accepts(NewReq(r))
            /\ Live(k)
            /\ cache[k].by.method = "HEAD"
            /\ cache[k].by.host = r[2]
            /\ cache[k].by.path = r[3] )
          => /\ last'.req = NewReq(r)
             /\ XCache(last') = <<"hit">>
             /\ last'.written = cache[k].sent.body
             /\ last'.written # ""
             /\ last'.fetches = 0

C28_HeadMissPopulates == []C28_HeadSentAsGet /\ [][C28_Step]_vars

\* a HEAD missed, went to the backend as a GET, its response was stored, and
\* the GET that followed was answered the body from that entry
C28_Witness ==
    /\ last.route = "hit"
    /\ last.req.method = "GET"
    /\ last.req.id = 2
    /\ last.served.by.method = "HEAD"
    /\ last.served.by.id = 1
    /\ last.served.Body = "hello"
    /\ last.written = "hello"
    /\ fetched = 1

(***************************************************************************)
(* C29: when the original request is HEAD the dispatcher does not send the *)
(* fetched or cached body back to the client, on the miss path and on the  *)
(* hit path alike: the handler hands no body to the response writer.       *)
(***************************************************************************)
C29_NoBodyOnHead ==
    (last.req.method = "HEAD" /\ last.route \in {"hit", "miss"})
        => last.written = ""

(***************************************************************************)
(* C30: on the cacheable path the hop-by-hop headers Connection,           *)
(* Keep-Alive, Proxy-Authenticate, Proxy-Authorization, TE, Trailers,      *)
(* Transfer-Encoding and Upgrade are removed from the backend response     *)
(* before it is stored or forwarded, so no stored entry and no miss or hit *)
(* response carries any of them, and exactly one Via value naming the      *)
(* proxy and its version is appended per fetch; a hit adds no further Via  *)
(* value.                                                                  *)
(***************************************************************************)
HopByHop ==
    {"Connection", "Keep-Alive", "Proxy-Authenticate", "Proxy-Authorization",
     "Te", "Trailers", "Transfer-Encoding", "Upgrade"}

NoHopByHop(header) == \A n \in HopByHop : header[n] = <<>>

\* what Fetch returned was read in full and forwarded
Forwarded(x) == x.route = "miss" /\ ~x.beResp.readErr

C30_HopByHopRemovedOneVia ==
    /\ \A k \in DOMAIN cache :
          /\ NoHopByHop(cache[k].Headers)
          /\ Len(cache[k].Headers["Via"]) >= 1
          /\ cache[k].Headers["Via"][Len(cache[k].Headers["Via"])] = versionString
    /\ last.route \in {"hit", "miss"} => NoHopByHop(last.Header)
    /\ Forwarded(last)
          => last.Header["Via"] = Append(last.beResp.Header["Via"], versionString)
    /\ last.route = "hit" => last.Header["Via"] = last.served.Headers["Via"]

C30_Step ==
    \A k \in DOMAIN cache' :
        (k \notin DOMAIN cache \/ cache'[k] # cache[k])
            => /\ Forwarded(last')
               /\ cache'[k].Headers["Via"]
                     = Append(last'.beResp.Header["Via"], versionString)

C30_HeadersCleaned == []C30_HopByHopRemovedOneVia /\ [][C30_Step]_vars

\* the backend's response carried Connection, Keep-Alive and the Via value of
\* a proxy before it; it was stored, and the hit that followed carries
\* neither hop-by-hop header and the two Via values
C30_Witness ==
    /\ last.route = "hit"
    /\ last.served.Headers["Via"] = <<"1.1 upstream", versionString>>
    /\ last.Header["Via"] = <<"1.1 upstream", versionString>>
    /\ last.Header["Connection"] = <<>>
    /\ last.Header["Keep-Alive"] = <<>>
    /\ \E r \in OriginResponses("/p") :
          /\ r.Header["Connection"] = <<"keep-alive">>
          /\ r.Header["Keep-Alive"] = <<"timeout=5">>
          /\ CleanHeader(r.Header) = last.served.Headers

(***************************************************************************)
(* C31: every GET or HEAD request increments exactly one of the hit and    *)
(* miss counters exactly once, hit when the lookup finds an entry and miss *)
(* otherwise, so at every moment hits + misses is the number of GET and    *)
(* HEAD requests that have passed the lookup, and none of the three        *)
(* counters ever decreases.                                                *)
(***************************************************************************)
C31_Sum == hits + misses = lookups /\ lookups <= nreq

C31_Step ==
    /\ \A r \in Requests :
          (r[1] \in {"GET", "HEAD"} /\ Accepts(NewReq(r)))
              => /\ lookups' = lookups + 1
                 /\ IF Live(MakeKey(NewReq(r), ignoreHost))
                    THEN hits' = hits + 1 /\ misses' = misses
                    ELSE misses' = misses + 1 /\ hits' = hits
    /\ (nreq' = nreq \/ (Completes /\ last'.route = "pass"))
          => hits' = hits /\ misses' = misses /\ lookups' = lookups
    /\ hits' >= hits
    /\ misses' >= misses
    /\ errors' >= errors

C31_CountersCountLookups == []C31_Sum /\ [][C31_Step]_vars

\* a request missed and the write of its reply failed, and the next request
\* hit: each of the three counters has moved
C31_Witness ==
    /\ hits = 1
    /\ misses = 1
    /\ errors = 1
    /\ lookups = 2
    /\ last.route = "hit"

(***************************************************************************)
(* C32: each request causes at most one call of backend Fetch: a hit       *)
(* causes none, a miss or a passed-through request exactly one, and a      *)
(* failed fetch (ok=false) is not retried on the same or on another        *)
(* backend: the request is answered from the synthetic response.           *)
(***************************************************************************)
\* the requests that wait for their fetch
Fetching == {c \in Conns : conn[c].pc = "fetch"}

C32_OneFetch ==
    /\ fetched + hits + Cardinality(Fetching) = nreq
    /\ last.fetches = (IF last.route \in {"miss", "pass"} THEN 1 ELSE 0)
    /\ last.roundTrip.err
          => /\ last.fetches = 1
             /\ ~last.ok
             /\ last.beResp = nuts
             /\ last.beReq.dial = ClientSend(GetBackend(backends, last.req.host),
                                             BackendRequest(last.req, TRUE)).dial

C32_Step ==
    /\ Completes => fetched' = fetched + last'.fetches
    /\ ~Completes => fetched' = fetched

C32_AtMostOneFetch == []C32_OneFetch /\ [][C32_Step]_vars

\* two requests, two calls of Fetch: the first request's fetch failed and
\* so did the second's, each answered from the synthetic response
C32_Witness ==
    /\ nreq = 2
    /\ fetched = 2
    /\ hits = 0
    /\ Fetching = {}
    /\ last.req.id = 2
    /\ last.roundTrip.err
    /\ last.status = 500

(***************************************************************************)
(* C33: when reading the backend response body fails on the cacheable      *)
(* path, the client receives status 500, the error counter is incremented  *)
(* by one, and nothing is stored in the cache for that key.                *)
(***************************************************************************)
C33_Step ==
    (Completes /\ last'.route = "miss" /\ last'.beResp.readErr)
        => /\ last'.status = 500
           /\ last'.Header = ErrorHeader
           /\ errors' = errors + 1
           /\ ~last'.stored
           /\ cache' = cache
           /\ \A k \in DOMAIN cache' : cache'[k].by # last'.req

C33_ReadErrorIs500 == [][C33_Step]_vars

\* the backend answered 200 and its body could not be read: the client got
\* 500, the error was counted and the store is empty
C33_Witness ==
    /\ last.route = "miss"
    /\ last.beResp.readErr
    /\ last.beResp.StatusCode = 200
    /\ last.ok
    /\ last.status = 500
    /\ errors = 1
    /\ DOMAIN cache = {}

(***************************************************************************)
(* C34: a max-age or s-maxage directive whose value is not an integer or   *)
(* is not positive, and an Expires header that none of the four date       *)
(* formats parses, are ignored as if absent: the dispatcher's calculateTTL *)
(* returns what it returns for the headers without them, and the default   *)
(* lifetime when nothing else decides; never DoNotCache on account of the  *)
(* malformed value.                                                        *)
(***************************************************************************)
Malformed(directive) ==
    /\ directive.name \in {"max-age=", "s-maxage="}
    /\ ~(directive.isInt /\ directive.n > 0)

\* the headers without the malformed lifetime directives and without an
\* Expires value that does not parse
WithoutMalformed(headers) ==
    LET cc == IF HHas(headers, "Cache-Control")
              THEN [headers EXCEPT !["Cache-Control"] =
                       <<SelectSeq(HGet(headers, "Cache-Control"), LAMBDA d : ~Malformed(d))>>]
              ELSE headers
    IN  IF HHas(cc, "Expires") /\ ~HGet(cc, "Expires").parsed
        THEN [cc EXCEPT !["Expires"] = <<>>]
        ELSE cc

HasMalformed(headers) ==
    \/ /\ HHas(headers, "Cache-Control")
       /\ \E i \in 1..Len(HGet(headers, "Cache-Control")) :
             Malformed(HGet(headers, "Cache-Control")[i])
    \/ HHas(headers, "Expires") /\ ~HGet(headers, "Expires").parsed

\* no directive but must-revalidate is left and there is no Expires value
NothingDecides(headers) ==
    /\ HHas(headers, "Cache-Control")
          => \A i \in 1..Len(HGet(headers, "Cache-Control")) :
                HGet(headers, "Cache-Control")[i] = Flag("must-revalidate")
    /\ ~HHas(headers, "Expires")

C34_MalformedIgnored ==
    (decision.done /\ HasMalformed(respHeaders))
        => /\ decision.frontend = frontendCalculateTTL(WithoutMalformed(respHeaders), now)
           /\ NothingDecides(WithoutMalformed(respHeaders)) => decision.frontend = defaultTTL

\* max-age=0 and an Expires value that does not parse, nothing else: the
\* default lifetime
C34_Witness ==
    /\ decision.done
    /\ respHeaders["Cache-Control"] = << <<IntArg("max-age=", 0), BadArg("s-maxage=")>> >>
    /\ respHeaders["Expires"] = <<BadExpires>>
    /\ decision.frontend = defaultTTL

(***************************************************************************)
(* C35: a response carries the X-Cache-TTL header if and only if it is a   *)
(* miss response whose entry was handed to the cache store (fetch ok=true  *)
(* and a TTL decision other than DoNotCache), and its value is the         *)
(* lifetime under which the entry is stored; hit responses, passed-through *)
(* responses and misses that are not stored never carry it.                *)
(***************************************************************************)
C35_Step ==
    Completes
        => /\ last'.Header["X-Cache-TTL"] # <<>> <=> (last'.route = "miss" /\ last'.stored)
           /\ \A k \in DOMAIN cache' :
                 cache'[k].by = last'.req
                     => LET ttl == frontendCalculateTTL(cache'[k].Headers, now) IN
                        /\ last'.Header["X-Cache-TTL"] = <<DurationString(ttl)>>
                        /\ cache'[k].expiration = now + ttl

C35_TTLHeaderIsLifetime == [][C35_Step]_vars

(***************************************************************************)
(* C36: in the handler of src/frontend/frontend.go every header the miss   *)
(* path adds to the client response, X-Cache: miss included, is added      *)
(* before the response status and headers are written, so the client of a  *)
(* miss receives X-Cache: miss.                                            *)
(***************************************************************************)
C36_MissHeaderSent ==
    (writer.route = "miss" /\ ~writer.beResp.readErr)
        => /\ writer.rw.wroteHeader
           /\ writer.rw.sent = writer.rw.header
           /\ writer.rw.sent["X-Cache"] = <<"miss">>

(***************************************************************************)
(* C37: a cache hit is always answered with status 200: the status code of *)
(* the origin response is not part of the stored entry, and whether a      *)
(* fetched response is stored does not depend on its status code, so an    *)
(* origin response of any status with ok=true that passes the TTL decision *)
(* is replayed to later requests as 200.                                   *)
(***************************************************************************)
C37_HitStatus ==
    /\ last.route = "hit" => last.status = 200
    /\ \A k \in DOMAIN cache : "StatusCode" \notin DOMAIN cache[k]

C37_Step ==
    (Completes /\ last'.route = "miss" /\ ~last'.beResp.readErr)
        => /\ last'.status = last'.beResp.StatusCode
           /\ last'.stored
                 <=> (last'.ok /\ frontendCalculateTTL(CleanHeader(last'.beResp.Header), now) > 0)

C37_HitIs200 == []C37_HitStatus /\ [][C37_Step]_vars

\* the origin answered 404 without any lifetime header, the response was
\* stored, and the next request for the key was answered 200 with its body
C37_Witness ==
    /\ last.route = "hit"
    /\ last.status = 200
    /\ last.served.by.id = 1
    /\ last.served.by.path = "/p"
    /\ last.served.Headers["Cache-Control"] = <<>>
    /\ last.served.Body = "hi"
    /\ Response(404, TextPlain, last.served.Body, FALSE) \in OriginResponses("/p")
    /\ last.written = "hi"

(***************************************************************************)
(* C38: the dispatcher's calculateTTL (0 = do not cache, 5 minutes =       *)
(* default) and the store's calculateTTL (negative = do not cache, 0 =     *)
(* default) agree on every header set evaluated at the same instant: the   *)
(* first returns 0 exactly when the second returns a negative value, the   *)
(* first returns the 5-minute default exactly when the second returns 0,   *)
(* and in every other case both return the same positive duration; hence   *)
(* the store never drops an entry the dispatcher decided to cache.         *)
(***************************************************************************)
C38_Agree ==
    decision.done
        => /\ decision.frontend = 0 <=> decision.lrucache < 0
           /\ decision.frontend = defaultTTL <=> decision.lrucache = 0
           /\ (decision.frontend # 0 /\ decision.frontend # defaultTTL)
                 => (decision.frontend > 0 /\ decision.frontend = decision.lrucache)
           /\ decision.frontend > 0 => decision.lrucache >= 0

(***************************************************************************)
(* C38, amended: the first returns 0 exactly when the second returns a     *)
(* negative value; whenever the second returns 0 the first returns 5       *)
(* minutes; whenever the second returns a positive duration the first      *)
(* returns the same duration, 5 minutes included; hence the store never    *)
(* drops an entry the dispatcher decided to cache.                         *)
(***************************************************************************)
C38_AgreeUpToDefault ==
    decision.done
        => /\ decision.frontend = 0 <=> decision.lrucache < 0
           /\ decision.lrucache = 0 => decision.frontend = defaultTTL
           /\ decision.lrucache > 0 => decision.frontend = decision.lrucache
           /\ decision.frontend > 0 => decision.lrucache >= 0

\* an explicit lifetime of 5 minutes: the dispatcher returns 5 minutes, which
\* is also its default, and the store returns 5 minutes, not 0
C38_Witness ==
    /\ decision.done
    /\ decision.frontend = defaultTTL
    /\ decision.lrucache = defaultTTL
    /\ respHeaders["Expires"] # <<>>

(***************************************************************************)
(* C39: with ignoreHost=false the key is the digest of the unseparated     *)
(* concatenation host||path, so two requests get the same key exactly when *)
(* their concatenations are equal; for hosts that contain no '/' and paths *)
(* that are empty or begin with '/', distinct (host, path) pairs have      *)
(* distinct concatenations, so the missing separator never makes two       *)
(* different requests share an entry.                                      *)
(***************************************************************************)
\* the host has no '/' and the path is empty or begins with '/'
WellFormed(req) ==
    /\ \A i \in 1..Len(req.host) : SubSeq(req.host, i, i) # "/"
    /\ req.path = "" \/ SubSeq(req.path, 1, 1) = "/"

SameResource(r1, r2) == r1.host = r2.host /\ r1.path = r2.path

C39_NoSharedEntry ==
    ~ignoreHost
        => /\ \A c, d \in Fetching :
                 /\ conn[c].key = conn[d].key
                       <=> conn[c].req.host \o conn[c].req.path
                              = conn[d].req.host \o conn[d].req.path
                 /\ (WellFormed(conn[c].req) /\ WellFormed(conn[d].req))
                       => (conn[c].key = conn[d].key
                              <=> SameResource(conn[c].req, conn[d].req))
           /\ last.route = "hit"
                 => /\ last.req.host \o last.req.path
                          = last.served.by.host \o last.served.by.path
                    /\ (WellFormed(last.req) /\ WellFormed(last.served.by))
                          => SameResource(last.req, last.served.by)
           /\ \A c \in Fetching : \A k \in DOMAIN cache :
                 ( /\ Live(k)
                   /\ WellFormed(conn[c].req)
                   /\ WellFormed(cache[k].by)
                   /\ ~SameResource(conn[c].req, cache[k].by) )
                 => conn[c].key # k

\* two different well-formed requests are being fetched at the same time,
\* under different keys
C39_Witness ==
    /\ ~ignoreHost
    /\ Fetching = Conns
    /\ WellFormed(conn[1].req)
    /\ WellFormed(conn[2].req)
    /\ ~SameResource(conn[1].req, conn[2].req)
    /\ conn[1].key # conn[2].key

====
